---- MODULE Spec2Model ----
(***************************************************************************)
(* AuraGold trading analyzer: the JSON export/import format, the           *)
(* normalization pipeline (utils/dataTransfer) and the ledger state of     *)
(* App.tsx with its merge / replace / as-new / ledger-replace imports.     *)
(***************************************************************************)
EXTENDS Integers, Sequences, FiniteSets, TLC

(***************************************************************************)
(* JavaScript values.  A JSON-decoded scalar is a record [t, n, s]: t is   *)
(* the typeof tag ("array" and "null" told apart from "object"), n the     *)
(* value of a finite number, s the characters of a string; a non-finite    *)
(* number carries its name in s.                                           *)
(***************************************************************************)
Num(i) == [t |-> "number", n |-> i, s |-> ""]
NaN == [t |-> "number", n |-> 0, s |-> "NaN"]
Infinity == [t |-> "number", n |-> 0, s |-> "Infinity"]
Str(x) == [t |-> "string", n |-> 0, s |-> x]
Null == [t |-> "null", n |-> 0, s |-> ""]
Undefined == [t |-> "undefined", n |-> 0, s |-> ""]
True == [t |-> "boolean", n |-> 1, s |-> ""]
EmptyObject == [t |-> "object", n |-> 0, s |-> ""]
EmptyArray == [t |-> "array", n |-> 0, s |-> ""]

\* Number.isFinite on a value of type number
IsFinite(v) == v.t = "number" /\ v.s = ""

\* Number(string) for the strings that occur in the files of the model:
\* a decimal numeral parses to its value, anything else to NaN.
NumberOfString(x) ==
  CASE x = "0" -> Num(0)
    [] x = "1" -> Num(1)
    [] x = "2" -> Num(2)
    [] x = "3" -> Num(3)
    [] x = " 2 " -> Num(2)
    [] OTHER -> NaN

\* String.prototype.trim() leaves nothing
TrimIsEmpty(x) == x \in {"", " ", "  "}

asString(value) == IF value.t = "string" THEN value ELSE Null

\* a coercion without the trim() test: Number("") and Number(" ") are 0
asNumberNoTrim(value) ==
  IF value.t = "number" /\ IsFinite(value) THEN value
  ELSE IF value.t = "string" /\ TrimIsEmpty(value.s) THEN Num(0)
  ELSE IF value.t = "string" /\ IsFinite(NumberOfString(value.s))
       THEN NumberOfString(value.s)
       ELSE Null

asNumber(value) ==
  IF value.t = "number" /\ IsFinite(value) THEN value
  ELSE IF value.t = "string" /\ ~TrimIsEmpty(value.s) /\ IsFinite(NumberOfString(value.s))
       THEN NumberOfString(value.s)
       ELSE Null

\* asRecordObject(value) is non-null
asRecordObject(value) == value.t = "object"

\* Array.isArray(value)
IsArray(value) == value.t = "array"

\* !v for the result of asString: null and the empty string are falsy
Falsy(v) == v.t = "null" \/ v.t = "undefined" \/ (v.t = "string" /\ v.s = "")

(***************************************************************************)
(* Domain values (types.ts): a TradeRecord and a Ledger held in memory.    *)
(* id and name are strings; timestamp and createdAt are only ever set from *)
(* Date.now() or from a non-null asNumber result, so they are integers;    *)
(* the other numeric fields are JavaScript numbers, finite or not.         *)
(***************************************************************************)
NumFields == {"grams", "costPrice", "sellingPrice", "handlingFeeRate",
              "actualProfit", "desiredPrice", "projectedProfit", "profitMargin"}

NoRecord == [id |-> "", grams |-> NaN, costPrice |-> NaN, sellingPrice |-> NaN,
             handlingFeeRate |-> NaN, actualProfit |-> NaN, desiredPrice |-> NaN,
             projectedProfit |-> NaN, profitMargin |-> NaN, timestamp |-> 0]

NoLedger == [id |-> "", name |-> "", createdAt |-> 0, records |-> <<>>]

\* a nullable result: ok = FALSE stands for null
Some(x) == [ok |-> TRUE, v |-> x]
NoneRecord == [ok |-> FALSE, v |-> NoRecord]
NoneLedger == [ok |-> FALSE, v |-> NoLedger]

normalizeTradeRecord(value) ==
  IF ~asRecordObject(value) THEN NoneRecord
  ELSE
    LET id == asString(value.id)
        grams == asNumber(value.grams)
        costPrice == asNumber(value.costPrice)
        sellingPrice == asNumber(value.sellingPrice)
        handlingFeeRate == asNumber(value.handlingFeeRate)
        actualProfit == asNumber(value.actualProfit)
        desiredPrice == asNumber(value.desiredPrice)
        projectedProfit == asNumber(value.projectedProfit)
        profitMargin == asNumber(value.profitMargin)
        timestamp == asNumber(value.timestamp)
    IN IF \/ Falsy(id)
          \/ grams = Null
          \/ costPrice = Null
          \/ sellingPrice = Null
          \/ handlingFeeRate = Null
          \/ actualProfit = Null
          \/ desiredPrice = Null
          \/ projectedProfit = Null
          \/ profitMargin = Null
          \/ timestamp = Null
       THEN NoneRecord
       ELSE Some([id |-> id.s, grams |-> grams, costPrice |-> costPrice,
                  sellingPrice |-> sellingPrice, handlingFeeRate |-> handlingFeeRate,
                  actualProfit |-> actualProfit, desiredPrice |-> desiredPrice,
                  projectedProfit |-> projectedProfit, profitMargin |-> profitMargin,
                  timestamp |-> timestamp.n])

(***************************************************************************)
(* Array.prototype.sort is stable: records.sort((a, b) => b.timestamp -    *)
(* a.timestamp) orders by timestamp descending and keeps the input order   *)
(* of equal timestamps.                                                    *)
(***************************************************************************)
\* an insertion that puts a record before those of its own timestamp
RECURSIVE InsertByTimestampDescUnstable(_, _)
InsertByTimestampDescUnstable(sorted, r) ==
  IF sorted = <<>> THEN <<r>>
  ELSE IF Head(sorted).timestamp > r.timestamp
       THEN <<Head(sorted)>> \o InsertByTimestampDescUnstable(Tail(sorted), r)
       ELSE <<r>> \o sorted

RECURSIVE InsertByTimestampDesc(_, _)
InsertByTimestampDesc(sorted, r) ==
  IF sorted = <<>> THEN <<r>>
  ELSE IF Head(sorted).timestamp >= r.timestamp
       THEN <<Head(sorted)>> \o InsertByTimestampDesc(Tail(sorted), r)
       ELSE <<r>> \o sorted

RECURSIVE SortByTimestampDescFrom(_, _)
SortByTimestampDescFrom(sorted, rest) ==
  IF rest = <<>> THEN sorted
  ELSE SortByTimestampDescFrom(InsertByTimestampDesc(sorted, Head(rest)), Tail(rest))

SortByTimestampDesc(records) == SortByTimestampDescFrom(<<>>, records)

\* [...map.values()].sort((a, b) => a.createdAt - b.createdAt), stable
RECURSIVE InsertByCreatedAtAsc(_, _)
InsertByCreatedAtAsc(sorted, l) ==
  IF sorted = <<>> THEN <<l>>
  ELSE IF Head(sorted).createdAt <= l.createdAt
       THEN <<Head(sorted)>> \o InsertByCreatedAtAsc(Tail(sorted), l)
       ELSE <<l>> \o sorted

RECURSIVE SortByCreatedAtAscFrom(_, _)
SortByCreatedAtAscFrom(sorted, rest) ==
  IF rest = <<>> THEN sorted
  ELSE SortByCreatedAtAscFrom(InsertByCreatedAtAsc(sorted, Head(rest)), Tail(rest))

SortByCreatedAtAsc(ledgers) == SortByCreatedAtAscFrom(<<>>, ledgers)

\* the ids held by a sequence of records or of ledgers
IdsOf(seq) == {seq[i].id : i \in 1..Len(seq)}

\* a loop that drops an item failing normalizeTradeRecord and goes on
RECURSIVE normalizeRecordsLoopSkipBad(_, _)
normalizeRecordsLoopSkipBad(records, rawItems) ==
  IF rawItems = <<>> THEN [ok |-> TRUE, v |-> records]
  ELSE LET r == normalizeTradeRecord(Head(rawItems))
       IN IF ~r.ok \/ r.v.id \in IdsOf(records)
          THEN normalizeRecordsLoopSkipBad(records, Tail(rawItems))
          ELSE normalizeRecordsLoopSkipBad(Append(records, r.v), Tail(rawItems))

\* a loop in which a later item replaces the record of the same id
ReplaceById(records, r) ==
  [k \in 1..Len(records) |-> IF records[k].id = r.id THEN r ELSE records[k]]

RECURSIVE normalizeRecordsLoopKeepLast(_, _)
normalizeRecordsLoopKeepLast(records, rawItems) ==
  IF rawItems = <<>> THEN [ok |-> TRUE, v |-> records]
  ELSE LET r == normalizeTradeRecord(Head(rawItems))
       IN IF ~r.ok THEN [ok |-> FALSE, v |-> <<>>]
          ELSE IF r.v.id \in IdsOf(records)
               THEN normalizeRecordsLoopKeepLast(ReplaceById(records, r.v),
                                                 Tail(rawItems))
               ELSE normalizeRecordsLoopKeepLast(Append(records, r.v), Tail(rawItems))

\* the loop of normalizeLedger over rawRecords: null as soon as one item
\* fails, a later item with an id already seen skipped
RECURSIVE normalizeRecordsLoop(_, _)
normalizeRecordsLoop(records, rawItems) ==
  IF rawItems = <<>> THEN [ok |-> TRUE, v |-> records]
  ELSE LET r == normalizeTradeRecord(Head(rawItems))
       IN IF ~r.ok THEN [ok |-> FALSE, v |-> <<>>]
          ELSE IF r.v.id \in IdsOf(records)
               THEN normalizeRecordsLoop(records, Tail(rawItems))
               ELSE normalizeRecordsLoop(Append(records, r.v), Tail(rawItems))

normalizeLedger(value) ==
  IF ~asRecordObject(value) THEN NoneLedger
  ELSE
    LET id == asString(value.id)
        name == asString(value.name)
        createdAt == asNumber(value.createdAt)
    IN IF Falsy(id) \/ Falsy(name) \/ createdAt = Null \/ ~IsArray(value.records)
       THEN NoneLedger
       ELSE LET loop == normalizeRecordsLoop(<<>>, value.records.items)
            IN IF ~loop.ok THEN NoneLedger
               ELSE Some([id |-> id.s, name |-> name.s, createdAt |-> createdAt.n,
                          records |-> SortByTimestampDesc(loop.v)])

(***************************************************************************)
(* A JavaScript Map keyed by ledger id, as the sequence of its values in   *)
(* insertion order: set() of a key already present replaces the value in   *)
(* place, set() of a new key appends.                                      *)
(***************************************************************************)
MapHas(map, id) == id \in IdsOf(map)
MapGet(map, id) == map[CHOOSE i \in 1..Len(map) : map[i].id = id]
MapSet(map, l) ==
  IF MapHas(map, l.id)
  THEN [i \in 1..Len(map) |-> IF map[i].id = l.id THEN l ELSE map[i]]
  ELSE Append(map, l)

\* mergedRecords: prev.records followed by the records of l whose id prev
\* does not hold, then sorted
\* a merge that appends every incoming record, known id or not
RECURSIVE PushAll(_, _, _)
PushAll(mergedRecords, seen, records) ==
  IF records = <<>> THEN mergedRecords
  ELSE PushAll(Append(mergedRecords, Head(records)), seen, Tail(records))

RECURSIVE PushUnseen(_, _, _)
PushUnseen(mergedRecords, seen, records) ==
  IF records = <<>> THEN mergedRecords
  ELSE IF Head(records).id \in seen
       THEN PushUnseen(mergedRecords, seen, Tail(records))
       ELSE PushUnseen(Append(mergedRecords, Head(records)), seen, Tail(records))

MergedRecords(prevRecords, inRecords) ==
  SortByTimestampDesc(PushUnseen(prevRecords, IdsOf(prevRecords), inRecords))

Min(a, b) == IF a <= b THEN a ELSE b

\* a collapse that keeps the name of the earlier ledger
RECURSIVE dedupeLoopKeepName(_, _)
dedupeLoopKeepName(map, ledgers) ==
  IF ledgers = <<>> THEN map
  ELSE LET l == Head(ledgers)
       IN IF ~MapHas(map, l.id)
          THEN dedupeLoopKeepName(MapSet(map, l), Tail(ledgers))
          ELSE LET prev == MapGet(map, l.id)
               IN dedupeLoopKeepName(
                    MapSet(map, [id |-> prev.id,
                                 name |-> prev.name,
                                 createdAt |-> Min(prev.createdAt, l.createdAt),
                                 records |-> MergedRecords(prev.records, l.records)]),
                    Tail(ledgers))

\* a collapse that takes the createdAt of the later ledger
RECURSIVE dedupeLoopLaterCreatedAt(_, _)
dedupeLoopLaterCreatedAt(map, ledgers) ==
  IF ledgers = <<>> THEN map
  ELSE LET l == Head(ledgers)
       IN IF ~MapHas(map, l.id)
          THEN dedupeLoopLaterCreatedAt(MapSet(map, l), Tail(ledgers))
          ELSE LET prev == MapGet(map, l.id)
               IN dedupeLoopLaterCreatedAt(
                    MapSet(map, [id |-> prev.id,
                                 name |-> IF l.name # "" THEN l.name ELSE prev.name,
                                 createdAt |-> l.createdAt,
                                 records |-> MergedRecords(prev.records, l.records)]),
                    Tail(ledgers))

RECURSIVE dedupeLoop(_, _)
dedupeLoop(map, ledgers) ==
  IF ledgers = <<>> THEN map
  ELSE LET l == Head(ledgers)
       IN IF ~MapHas(map, l.id)
          THEN dedupeLoop(MapSet(map, l), Tail(ledgers))
          ELSE LET prev == MapGet(map, l.id)
               IN dedupeLoop(
                    MapSet(map, [id |-> prev.id,
                                 name |-> IF l.name # "" THEN l.name ELSE prev.name,
                                 createdAt |-> Min(prev.createdAt, l.createdAt),
                                 records |-> MergedRecords(prev.records, l.records)]),
                    Tail(ledgers))

dedupeLedgersById(ledgers) == SortByCreatedAtAsc(dedupeLoop(<<>>, ledgers))

\* the loop of normalizeAllImport over the raw ledgers: null as soon as one
\* element fails normalizeLedger
RECURSIVE normalizeLedgersLoop(_, _)
normalizeLedgersLoop(ledgers, rawItems) ==
  IF rawItems = <<>> THEN [ok |-> TRUE, v |-> ledgers]
  ELSE LET ledger == normalizeLedger(Head(rawItems))
       IN IF ~ledger.ok THEN [ok |-> FALSE, v |-> <<>>]
          ELSE normalizeLedgersLoop(Append(ledgers, ledger.v), Tail(rawItems))

\* the null result of normalizeAllImport
NoneAll == [ok |-> FALSE, ledgers |-> <<>>, activeLedgerId |-> Undefined,
            lang |-> Undefined, theme |-> Undefined]

\* an importer content with one of the two tags
normalizeAllImportEitherTag(input) ==
  IF ~asRecordObject(input) THEN NoneAll
  ELSE IF input.schema = Str("auragold.export") \/ input.kind = Str("all")
  THEN IF ~asRecordObject(input.payload) THEN NoneAll
       ELSE IF ~IsArray(input.payload.ledgers) THEN NoneAll
       ELSE LET loop == normalizeLedgersLoop(<<>>, input.payload.ledgers.items)
                lang == asString(input.payload.lang)
                theme == asString(input.payload.theme)
            IN IF ~loop.ok THEN NoneAll
               ELSE [ok |-> TRUE,
                     ledgers |-> dedupeLedgersById(loop.v),
                     activeLedgerId |-> asString(input.payload.activeLedgerId),
                     lang |-> IF lang = Str("en") \/ lang = Str("zh")
                              THEN lang ELSE Undefined,
                     theme |-> IF theme = Str("light") \/ theme = Str("dark")
                               THEN theme ELSE Undefined]
  ELSE IF IsArray(input)
  THEN LET loop == normalizeLedgersLoop(<<>>, input.items)
       IN IF ~loop.ok THEN NoneAll
          ELSE [ok |-> TRUE, ledgers |-> dedupeLedgersById(loop.v),
                activeLedgerId |-> Undefined, lang |-> Undefined,
                theme |-> Undefined]
  ELSE NoneAll

normalizeAllImport(input) ==
  IF ~asRecordObject(input) THEN NoneAll
  ELSE IF input.schema = Str("auragold.export") /\ input.kind = Str("all")
  THEN IF ~asRecordObject(input.payload) THEN NoneAll
       ELSE IF ~IsArray(input.payload.ledgers) THEN NoneAll
       ELSE LET loop == normalizeLedgersLoop(<<>>, input.payload.ledgers.items)
                lang == asString(input.payload.lang)
                theme == asString(input.payload.theme)
            IN IF ~loop.ok THEN NoneAll
               ELSE [ok |-> TRUE,
                     ledgers |-> dedupeLedgersById(loop.v),
                     activeLedgerId |-> asString(input.payload.activeLedgerId),
                     lang |-> IF lang = Str("en") \/ lang = Str("zh")
                              THEN lang ELSE Undefined,
                     theme |-> IF theme = Str("light") \/ theme = Str("dark")
                               THEN theme ELSE Undefined]
  ELSE IF IsArray(input)
  THEN LET loop == normalizeLedgersLoop(<<>>, input.items)
       IN IF ~loop.ok THEN NoneAll
          ELSE [ok |-> TRUE, ledgers |-> dedupeLedgersById(loop.v),
                activeLedgerId |-> Undefined, lang |-> Undefined,
                theme |-> Undefined]
  ELSE NoneAll

\* an importer that takes enveloped ledgers only
normalizeLedgerImportEnvelopeOnly(input) ==
  IF asRecordObject(input) /\ input.schema = Str("auragold.export")
     /\ input.kind = Str("ledger")
  THEN IF ~asRecordObject(input.payload) THEN NoneLedger
       ELSE normalizeLedger(input.payload.ledger)
  ELSE NoneLedger

normalizeLedgerImport(input) ==
  IF asRecordObject(input) /\ input.schema = Str("auragold.export")
     /\ input.kind = Str("ledger")
  THEN IF ~asRecordObject(input.payload) THEN NoneLedger
       ELSE normalizeLedger(input.payload.ledger)
  ELSE normalizeLedger(input)

(***************************************************************************)
(* mergeLedgers of App.tsx: the map is seeded with the current ledgers;    *)
(* an incoming ledger with a new id is inserted, one with a known id only  *)
(* contributes its unseen records ({ ...existing, records }).              *)
(***************************************************************************)
RECURSIVE SeedMap(_, _)
SeedMap(map, current) ==
  IF current = <<>> THEN map
  ELSE SeedMap(MapSet(map, Head(current)), Tail(current))

\* a merge that overwrites the records of a known ledger with the incoming ones
RECURSIVE mergeLoopOverwrite(_, _)
mergeLoopOverwrite(map, incoming_) ==
  IF incoming_ = <<>> THEN map
  ELSE LET inLedger == Head(incoming_)
       IN IF ~MapHas(map, inLedger.id)
          THEN mergeLoopOverwrite(MapSet(map, inLedger), Tail(incoming_))
          ELSE LET existing_ == MapGet(map, inLedger.id)
               IN mergeLoopOverwrite(
                    MapSet(map, [existing_ EXCEPT !.records = inLedger.records]),
                    Tail(incoming_))

RECURSIVE mergeLoop(_, _)
mergeLoop(map, incoming_) ==
  IF incoming_ = <<>> THEN map
  ELSE LET inLedger == Head(incoming_)
       IN IF ~MapHas(map, inLedger.id)
          THEN mergeLoop(MapSet(map, inLedger), Tail(incoming_))
          ELSE LET existing_ == MapGet(map, inLedger.id)
               IN mergeLoop(
                    MapSet(map, [existing_ EXCEPT
                                   !.records = MergedRecords(existing_.records,
                                                             inLedger.records)]),
                    Tail(incoming_))

mergeLedgers(current, incoming_) ==
  SortByCreatedAtAsc(mergeLoop(SeedMap(<<>>, current), incoming_))

(***************************************************************************)
(* JSON text.  JSON.parse(JSON.stringify(x)) of a value held in memory:    *)
(* a string stays a string, a finite number a number, a non-finite number  *)
(* is written as null, an array keeps its elements in order.               *)
(***************************************************************************)
JsonNumber(v) == IF IsFinite(v) THEN v ELSE Null

\* a JSON object decoded as a trade record; a field the text lacks reads
\* as undefined
RawRecord(id, grams, costPrice, sellingPrice, handlingFeeRate, actualProfit, desiredPrice, projectedProfit, profitMargin, timestamp, extra) ==
  [t |-> "object", n |-> 0, s |-> "", id |-> id, grams |-> grams,
   costPrice |-> costPrice, sellingPrice |-> sellingPrice,
   handlingFeeRate |-> handlingFeeRate, actualProfit |-> actualProfit,
   desiredPrice |-> desiredPrice, projectedProfit |-> projectedProfit,
   profitMargin |-> profitMargin, timestamp |-> timestamp, extra |-> extra]

\* a JSON scalar (or array) standing where a trade record is expected
ScalarAsRecord(v) ==
  [t |-> v.t, n |-> v.n, s |-> v.s, id |-> Undefined, grams |-> Undefined,
   costPrice |-> Undefined, sellingPrice |-> Undefined,
   handlingFeeRate |-> Undefined, actualProfit |-> Undefined,
   desiredPrice |-> Undefined, projectedProfit |-> Undefined,
   profitMargin |-> Undefined, timestamp |-> Undefined, extra |-> Undefined]

\* a JSON array, or a scalar standing where an array is expected
RawArray(items) == [t |-> "array", n |-> 0, s |-> "", items |-> items]
ScalarAsArray(v) == [t |-> v.t, n |-> v.n, s |-> v.s, items |-> <<>>]

RawLedger(id, name, createdAt, records) ==
  [t |-> "object", n |-> 0, s |-> "", id |-> id, name |-> name,
   createdAt |-> createdAt, records |-> records]

ScalarAsLedger(v) ==
  [t |-> v.t, n |-> v.n, s |-> v.s, id |-> Undefined, name |-> Undefined,
   createdAt |-> Undefined, records |-> ScalarAsArray(Undefined)]

RawPayload(ledgers, activeLedgerId, lang, theme, ledger) ==
  [t |-> "object", n |-> 0, s |-> "", ledgers |-> ledgers,
   activeLedgerId |-> activeLedgerId, lang |-> lang, theme |-> theme,
   ledger |-> ledger]

ScalarAsPayload(v) ==
  [t |-> v.t, n |-> v.n, s |-> v.s, ledgers |-> ScalarAsArray(Undefined),
   activeLedgerId |-> Undefined, lang |-> Undefined, theme |-> Undefined,
   ledger |-> ScalarAsLedger(Undefined)]

\* the top-level value of a file: an envelope, a bare ledger, a bare array
\* or a scalar
RawEnvelope(kind, payload) ==
  [t |-> "object", n |-> 0, s |-> "", schema |-> Str("auragold.export"),
   kind |-> kind, payload |-> payload, id |-> Undefined, name |-> Undefined,
   createdAt |-> Undefined, records |-> ScalarAsArray(Undefined), items |-> <<>>]

BareLedger(l) ==
  [t |-> "object", n |-> 0, s |-> "", schema |-> Undefined, kind |-> Undefined,
   payload |-> ScalarAsPayload(Undefined), id |-> l.id, name |-> l.name,
   createdAt |-> l.createdAt, records |-> l.records, items |-> <<>>]

BareArray(items) ==
  [t |-> "array", n |-> 0, s |-> "", schema |-> Undefined, kind |-> Undefined,
   payload |-> ScalarAsPayload(Undefined), id |-> Undefined, name |-> Undefined,
   createdAt |-> Undefined, records |-> ScalarAsArray(Undefined), items |-> items]

ScalarAsTop(v) ==
  [t |-> v.t, n |-> v.n, s |-> v.s, schema |-> Undefined, kind |-> Undefined,
   payload |-> ScalarAsPayload(Undefined), id |-> Undefined, name |-> Undefined,
   createdAt |-> Undefined, records |-> ScalarAsArray(Undefined), items |-> <<>>]

\* an object without any of the fields the importers read, such as {foo: "bar"}
UntaggedObject == ScalarAsTop(EmptyObject)

JsonRecord(r) ==
  RawRecord(Str(r.id), JsonNumber(r.grams), JsonNumber(r.costPrice),
            JsonNumber(r.sellingPrice), JsonNumber(r.handlingFeeRate),
            JsonNumber(r.actualProfit), JsonNumber(r.desiredPrice),
            JsonNumber(r.projectedProfit), JsonNumber(r.profitMargin),
            Num(r.timestamp), Undefined)

JsonLedger(l) ==
  RawLedger(Str(l.id), Str(l.name), Num(l.createdAt),
            RawArray([i \in 1..Len(l.records) |-> JsonRecord(l.records[i])]))

JsonLedgers(ledgers) ==
  RawArray([i \in 1..Len(ledgers) |-> JsonLedger(ledgers[i])])

\* the file written by exportAllDataJson, as read back by readJsonFromFile
exportAllDataJson(ls, active, lg, th) ==
  RawEnvelope(Str("all"),
              RawPayload(JsonLedgers(ls), Str(active), Str(lg), Str(th),
                         ScalarAsLedger(Undefined)))

\* the file written by exportLedgerJson for one ledger
exportLedgerJson(ledger) ==
  RawEnvelope(Str("ledger"),
              RawPayload(ScalarAsArray(Undefined), Undefined, Undefined,
                         Undefined, JsonLedger(ledger)))

(***************************************************************************)
(* JavaScript arithmetic on possibly non-finite numbers, as used by the    *)
(* trade-entry form.  The numbers of the model are integers: a finite      *)
(* quotient is rounded down to one.                                        *)
(***************************************************************************)
NegInfinity == [t |-> "number", n |-> 0, s |-> "-Infinity"]

IsNaN(a) == a.s = "NaN"
IsInfinite(a) == a.s \in {"Infinity", "-Infinity"}
IsNegative(a) == a.s = "-Infinity" \/ (a.s = "" /\ a.n < 0)
IsZero(a) == a.s = "" /\ a.n = 0
SignedInfinity(negative) == IF negative THEN NegInfinity ELSE Infinity

JsMul(a, b) ==
  IF IsNaN(a) \/ IsNaN(b) THEN NaN
  ELSE IF IsInfinite(a) \/ IsInfinite(b)
       THEN IF IsZero(a) \/ IsZero(b) THEN NaN
            ELSE SignedInfinity(IsNegative(a) # IsNegative(b))
       ELSE Num(a.n * b.n)

JsSub(a, b) ==
  IF IsNaN(a) \/ IsNaN(b) THEN NaN
  ELSE IF IsInfinite(a)
       THEN IF IsInfinite(b) /\ a.s = b.s THEN NaN ELSE a
       ELSE IF IsInfinite(b) THEN SignedInfinity(~IsNegative(b))
            ELSE Num(a.n - b.n)

JsDiv(a, b) ==
  IF IsNaN(a) \/ IsNaN(b) THEN NaN
  ELSE IF IsInfinite(a)
       THEN IF IsInfinite(b) THEN NaN
            ELSE SignedInfinity(IsNegative(a) # IsNegative(b))
       ELSE IF IsInfinite(b) THEN Num(0)
            ELSE IF b.n = 0
                 THEN IF a.n = 0 THEN NaN ELSE SignedInfinity(a.n < 0)
                 ELSE Num(a.n \div b.n)

\* parseFloat of the text of a form field
parseFloat(x) ==
  CASE x = "0" -> Num(0)
    [] x = "1" -> Num(1)
    [] x = "2" -> Num(2)
    [] x = "3" -> Num(3)
    [] OTHER -> NaN

\* the record handleSubmit hands to onAdd for the form data, or nothing when
\* the validation returns early
handleSubmit(formData, id, timestamp) ==
  LET g == parseFloat(formData.grams)
      cp == parseFloat(formData.costPrice)
      sp == parseFloat(formData.sellingPrice)
      hfr == parseFloat(formData.handlingFeeRate)
      parsedDp == parseFloat(formData.desiredPrice)
      dp == IF IsNaN(parsedDp) \/ IsZero(parsedDp) THEN sp ELSE parsedDp
      actualProfit == JsSub(JsMul(g, JsSub(sp, cp)), JsMul(JsMul(sp, hfr), g))
      projectedProfit == JsSub(JsMul(g, JsSub(dp, cp)), JsMul(JsMul(dp, hfr), g))
      margin == JsMul(JsDiv(actualProfit, JsMul(g, cp)), Num(100))
  IN IF IsNaN(g) \/ IsNaN(cp) \/ IsNaN(sp)
        \/ IsNegative(g) \/ IsNegative(cp) \/ IsNegative(sp)
     THEN NoneRecord
     ELSE Some([id |-> id, grams |-> g, costPrice |-> cp, sellingPrice |-> sp,
                handlingFeeRate |-> hfr, actualProfit |-> actualProfit,
                desiredPrice |-> dp, projectedProfit |-> projectedProfit,
                profitMargin |-> margin, timestamp |-> timestamp])

generateLedgerIdStale(k) == "led-1"

\* the k-th id generateId returns for a ledger, for a trade record: ids
\* never returned before and held by no file written before
generateLedgerId(k) ==
  CASE k = 1 -> "led-1" [] k = 2 -> "led-2" [] k = 3 -> "led-3"
    [] k = 4 -> "led-4" [] OTHER -> "led-5"
generateRecordId(k) ==
  CASE k = 1 -> "rec-1" [] k = 2 -> "rec-2" [] k = 3 -> "rec-3"
    [] k = 4 -> "rec-4" [] OTHER -> "rec-5"

\* name.trim() for the names of the model
Trim(x) ==
  CASE x = " A " -> "A"
    [] x = " " -> ""
    [] OTHER -> x

\* `${baseName} (import ${i})`, in Chinese `${baseName}(zh-import ${i})`;
\* Chinese texts are written in ASCII with the prefix zh
ImportName(baseName, lg, i) ==
  CASE baseName = "A" /\ lg = "en" /\ i = 2 -> "A (import 2)"
    [] baseName = "A" /\ lg = "en" /\ i = 3 -> "A (import 3)"
    [] baseName = "A" /\ lg = "en" /\ i = 4 -> "A (import 4)"
    [] baseName = "B" /\ lg = "en" /\ i = 2 -> "B (import 2)"
    [] baseName = "B" /\ lg = "en" /\ i = 3 -> "B (import 3)"
    [] baseName = "B" /\ lg = "en" /\ i = 4 -> "B (import 4)"
    [] baseName = "A" /\ lg = "zh" /\ i = 2 -> "A(zh-import 2)"
    [] baseName = "A" /\ lg = "zh" /\ i = 3 -> "A(zh-import 3)"
    [] baseName = "A" /\ lg = "zh" /\ i = 4 -> "A(zh-import 4)"
    [] baseName = "B" /\ lg = "zh" /\ i = 2 -> "B(zh-import 2)"
    [] baseName = "B" /\ lg = "zh" /\ i = 3 -> "B(zh-import 3)"
    [] baseName = "B" /\ lg = "zh" /\ i = 4 -> "B(zh-import 4)"
    [] baseName = "Imported Ledger" /\ i = 2 -> "Imported Ledger (import 2)"
    [] baseName = "Imported Ledger" /\ i = 3 -> "Imported Ledger (import 3)"
    [] baseName = "zh-Imported Ledger" /\ i = 2 -> "zh-Imported Ledger(zh-import 2)"
    [] baseName = "zh-Imported Ledger" /\ i = 3 -> "zh-Imported Ledger(zh-import 3)"
    [] OTHER -> "(import n)"

\* the while loop of importLedgerJson: the first of baseName, baseName
\* (import 2), baseName (import 3), ... that existingNames lacks
RECURSIVE FreeNameFrom(_, _, _, _, _)
FreeNameFrom(name, baseName, lg, i, existingNames) ==
  IF name \notin existingNames THEN name
  ELSE FreeNameFrom(ImportName(baseName, lg, i), baseName, lg, i + 1, existingNames)

(***************************************************************************)
(* Bounds of the model.                                                    *)
(***************************************************************************)
\* longest records array of a file ledger
MaxFileRecords == 2
\* longest ledgers array of a file
MaxFileLedgers == 2

\* most ledgers of a ledger list the merge is applied to
MaxHeldLedgers == 2

\* ids generateId hands out for ledgers, for trade records
MaxLedgerIds == 2
MaxRecordIds == 1
\* imports whose file is being read at one time
MaxInFlight == 1
\* last value of the clock, which starts at FirstTime
MaxTime == 3
\* operations the user performs in one run
MaxOps == 3

\* all sequences over S of length at most n
SeqsUpTo(S, n) == UNION {[1..k -> S] : k \in 0..n}

\* sequences whose elements have pairwise distinct ids
UniqueIds(seq) == \A i, j \in 1..Len(seq) : seq[i].id = seq[j].id => i = j

(***************************************************************************)
(* Values the model draws files and states from.                           *)
(***************************************************************************)
TradeOf(id, ts) ==
  [id |-> id, grams |-> Num(ts), costPrice |-> Num(1), sellingPrice |-> Num(2),
   handlingFeeRate |-> Num(0), actualProfit |-> Num(ts), desiredPrice |-> Num(2),
   projectedProfit |-> Num(ts), profitMargin |-> Num(1), timestamp |-> ts]

\* trade records of files: r1 occurs with two timestamps, r1 and r2 share one
RecordPool == {TradeOf("r1", 1), TradeOf("r1", 2), TradeOf("r2", 2)}

\* id, name and createdAt of the ledgers of files
LedgerHeads == {[id |-> "L1", name |-> "A", createdAt |-> 2],
                [id |-> "L1", name |-> "B", createdAt |-> 1],
                [id |-> "L2", name |-> "A", createdAt |-> 1]}

LedgerOf(head, records) ==
  [id |-> head.id, name |-> head.name, createdAt |-> head.createdAt,
   records |-> records]

\* ledgers as normalizeLedger returns them
NormalizedLedgers ==
  {LedgerOf(h, SortByTimestampDesc(rs)) :
     h \in LedgerHeads,
     rs \in {x \in SeqsUpTo(RecordPool, MaxFileRecords) : UniqueIds(x)}}

\* ledgers as the application may hold them: the records in any order
HeldLedgers ==
  {LedgerOf(h, rs) :
     h \in LedgerHeads,
     rs \in {x \in SeqsUpTo(RecordPool, MaxFileRecords) : UniqueIds(x)}}

(***************************************************************************)
(* Files for the normalizers, as decoded by JSON.parse.                    *)
(***************************************************************************)
GoodRecord == JsonRecord(TradeOf("r1", 1))

\* a valid record written with its numbers as numeric strings
StringyRecord ==
  RawRecord(Str("r2"), Str("2"), Str("1"), Str("2"), Str("0"), Str("2"),
            Str("2"), Str("2"), Str("1"), Str(" 2 "), Str("note"))

GoodRecordItems == {JsonRecord(r) : r \in RecordPool} \cup {StringyRecord}

BadRecordItems ==
  {[GoodRecord EXCEPT !.id = Undefined],
   [GoodRecord EXCEPT !.id = Num(7)],
   [GoodRecord EXCEPT !.id = Str("")],
   [GoodRecord EXCEPT !.profitMargin = Null],
   [GoodRecord EXCEPT !.timestamp = Str("abc")],
   [GoodRecord EXCEPT !.grams = Str(" ")],
   [GoodRecord EXCEPT !.costPrice = True],
   ScalarAsRecord(Num(42)),
   ScalarAsRecord(Null),
   ScalarAsRecord(EmptyArray)}

RecordItems == GoodRecordItems \cup BadRecordItems

GoodLedger == JsonLedger(LedgerOf([id |-> "L2", name |-> "A", createdAt |-> 1],
                                  <<TradeOf("r2", 2)>>))

\* one ledger whose records array runs over every mix of good and bad items
LedgersOverRecords ==
  {RawLedger(Str("L1"), Str("A"), Num(2), RawArray(items)) :
     items \in SeqsUpTo(RecordItems, MaxFileRecords)}

BadLedgerItems ==
  {[GoodLedger EXCEPT !.id = Undefined],
   [GoodLedger EXCEPT !.id = Num(1)],
   [GoodLedger EXCEPT !.name = Undefined],
   [GoodLedger EXCEPT !.name = Str("")],
   [GoodLedger EXCEPT !.createdAt = Null],
   [GoodLedger EXCEPT !.createdAt = Str("1")],
   [GoodLedger EXCEPT !.records = ScalarAsArray(Undefined)],
   [GoodLedger EXCEPT !.records = ScalarAsArray(EmptyObject)],
   ScalarAsLedger(Num(42)),
   ScalarAsLedger(Null),
   ScalarAsLedger(EmptyArray)}

\* ledger elements of multi-ledger files: short valid ledgers and bad ones
LedgerItems ==
  {JsonLedger(LedgerOf(h, rs)) :
     h \in LedgerHeads, rs \in SeqsUpTo(RecordPool, 1)}
  \cup BadLedgerItems

\* a second ledger with the id of LedgersOverRecords
TwinLedger == JsonLedger(LedgerOf([id |-> "L1", name |-> "B", createdAt |-> 1],
                                  <<TradeOf("r2", 2)>>))

\* the same, founded later
LateTwinLedger == JsonLedger(LedgerOf([id |-> "L1", name |-> "B", createdAt |-> 3],
                                      <<TradeOf("r2", 2)>>))

LedgerArrays ==
  SeqsUpTo(LedgerItems, MaxFileLedgers)
  \cup {<<l>> : l \in LedgersOverRecords}
  \cup {<<LateTwinLedger, l>> : l \in LedgersOverRecords}
  \cup {<<l, TwinLedger>> : l \in LedgersOverRecords}

AllEnvelope(items, active, lg, th) ==
  RawEnvelope(Str("all"),
              RawPayload(RawArray(items), active, lg, th, ScalarAsLedger(Undefined)))

RawInputs ==
  {AllEnvelope(items, Str("L1"), Str("en"), Str("dark")) : items \in LedgerArrays}
  \cup {BareArray(items) : items \in LedgerArrays}
  \cup {AllEnvelope(<<GoodLedger>>, a, lg, th) :
          a \in {Undefined, Null, Num(1), Str("master"), Str("L2")},
          lg \in {Undefined, Str("zh"), Str("fr")},
          th \in {Undefined, Str("light"), Str("blue")}}
  \cup {BareLedger(l) : l \in LedgerItems}
  \cup {RawEnvelope(Str("ledger"),
                    RawPayload(ScalarAsArray(Undefined), Undefined, Undefined,
                               Undefined, l)) : l \in LedgerItems}
  \cup {RawEnvelope(Str("all"), ScalarAsPayload(Null)),
        RawEnvelope(Str("all"), ScalarAsPayload(Num(1))),
        RawEnvelope(Str("all"),
                    RawPayload(ScalarAsArray(Undefined), Undefined, Undefined,
                               Undefined, GoodLedger)),
        RawEnvelope(Str("all"),
                    RawPayload(ScalarAsArray(EmptyObject), Undefined, Undefined,
                               Undefined, ScalarAsLedger(Undefined))),
        RawEnvelope(Str("other"), ScalarAsPayload(EmptyObject)),
        RawEnvelope(Str("ledger"), ScalarAsPayload(Null)),
        [AllEnvelope(<<GoodLedger>>, Undefined, Undefined, Undefined)
           EXCEPT !.schema = Str("something.else")],
        [BareLedger(GoodLedger) EXCEPT !.schema = Str("auragold.export"),
                                       !.kind = Str("all")],
        UntaggedObject,
        ScalarAsTop(Num(42)),
        ScalarAsTop(Str("text")),
        ScalarAsTop(Null),
        ScalarAsTop(True)}

(***************************************************************************)
(* State.                                                                  *)
(***************************************************************************)
VARIABLES
  rawInput,     \* the decoded JSON value handed to a normalizer
  normalized,   \* what normalizeAllImport returned for rawInput
  importedLedger, \* what normalizeLedgerImport returned for rawInput
  normPc        \* "ready" before the call, "done" after normalizeAllImport,
                \* "ledgerDone" after normalizeLedgerImport

normVars == <<rawInput, normalized, importedLedger, normPc>>

VARIABLES
  existing,     \* the ledger list a merge starts from
  incoming,     \* the normalized ledgers of the imported file
  merged,       \* mergeLedgers(existing, incoming)
  remerged,     \* mergeLedgers(merged, incoming): the same file imported again
  collapsed,    \* dedupeLedgersById of existing followed by incoming
  mergePc       \* "ready", "merged", "remerged", "collapsed"

mergeVars == <<existing, incoming, merged, remerged, collapsed, mergePc>>

VARIABLES
  fileLedgers,          \* the normalized ledgers of a file, in file order
  fileLedgersPermuted,  \* the same ledgers in another order
  deduped,              \* dedupeLedgersById(fileLedgers)
  dedupedPermuted,      \* dedupeLedgersById(fileLedgersPermuted)
  dedupePc              \* "ready" before the calls, "done" after them

dedupeVars == <<fileLedgers, fileLedgersPermuted, deduped, dedupedPermuted, dedupePc>>

VARIABLES
  rawRecord,     \* the decoded JSON value handed to normalizeTradeRecord
  recordOut,     \* what normalizeTradeRecord returned for rawRecord
  rawLedger,     \* the decoded JSON value handed to normalizeLedger
  ledgerOut,     \* what normalizeLedger returned for rawLedger
  exportName,    \* the string handed to safeFilename, as its characters
  filename,      \* what safeFilename returned for exportName
  partPc         \* "record", "ledger" or "name" before the call, "recordDone",
                 \* "ledgerDone" or "nameDone" after it

partVars == <<rawRecord, recordOut, rawLedger, ledgerOut, exportName, filename,
              partPc>>

VARIABLES
  ledgers,          \* useState<Ledger[]>
  activeLedgerId,   \* useState<string>: a ledger id, "master" or ""
  lang,             \* "en" or "zh"
  theme,            \* "light" or "dark"
  showMasterLedger, \* useState(boolean)
  transferToast,    \* the last message of showTransferToast
  inflight,         \* imports awaiting readJsonFromFile, with their closures
  now,              \* the last value Date.now() returned
  ledgerIdsMade,    \* calls of generateId of App.tsx so far
  recordIdsMade,    \* calls of generateId of TradeForm.tsx so far
  opsDone,          \* operations the user has performed so far
  confirmAnswer     \* what window.confirm returned in the import step just
                    \* taken: "ok", "cancel", or "none" when it was not called

appVars == <<ledgers, activeLedgerId, lang, theme, showMasterLedger,
             transferToast, inflight, now, ledgerIdsMade, recordIdsMade, opsDone,
             confirmAnswer>>

vars == <<normVars, mergeVars, dedupeVars, partVars, appVars>>

NormIdle ==
  /\ rawInput = UntaggedObject /\ normalized = NoneAll
  /\ importedLedger = NoneLedger /\ normPc = "idle"
MergeIdle ==
  /\ existing = <<>> /\ incoming = <<>> /\ merged = <<>> /\ remerged = <<>>
  /\ collapsed = <<>>
  /\ mergePc = "idle"
DedupeIdle ==
  /\ fileLedgers = <<>> /\ fileLedgersPermuted = <<>> /\ deduped = <<>>
  /\ dedupedPermuted = <<>> /\ dedupePc = "idle"
PartIdle ==
  /\ rawRecord = ScalarAsRecord(Undefined) /\ recordOut = NoneRecord
  /\ rawLedger = ScalarAsLedger(Undefined) /\ ledgerOut = NoneLedger
  /\ exportName = <<>> /\ filename = <<>>
  /\ partPc = "idle"

\* the clock when the application starts
FirstTime == 2

NoToast == [message |-> "", variant |-> "success"]

\* the application as constructed over an empty localStorage
AppInit ==
  /\ ledgers = <<>>
  /\ activeLedgerId = "master"
  /\ lang = "zh"
  /\ theme = "light"
  /\ showMasterLedger = TRUE
  /\ transferToast = NoToast
  /\ inflight = <<>>
  /\ now = FirstTime
  /\ ledgerIdsMade = 0
  /\ recordIdsMade = 0
  /\ opsDone = 0
  /\ confirmAnswer = "none"

(***************************************************************************)
(* The normalizers applied to a file.                                      *)
(***************************************************************************)
NormInit ==
  /\ rawInput \in RawInputs
  /\ normalized = NoneAll
  /\ importedLedger = NoneLedger
  /\ normPc = "ready"
  /\ MergeIdle
  /\ DedupeIdle
  /\ PartIdle
  /\ AppInit

NormalizeAll ==
  /\ normPc = "ready"
  /\ normalized' = normalizeAllImport(rawInput)
  /\ normPc' = "done"
  /\ UNCHANGED <<rawInput, importedLedger, mergeVars, dedupeVars, partVars, appVars>>

NormalizeLedgerFile ==
  /\ normPc = "ready"
  /\ importedLedger' = normalizeLedgerImport(rawInput)
  /\ normPc' = "ledgerDone"
  /\ UNCHANGED <<rawInput, normalized, mergeVars, dedupeVars, partVars, appVars>>

NormNext == NormalizeAll \/ NormalizeLedgerFile

SpecNormalize == NormInit /\ [][NormNext]_vars

\* the elements of the ledgers array of an "all data" file, enveloped or bare
LedgerElements(input) ==
  IF IsArray(input) THEN input.items
  ELSE IF asRecordObject(input) /\ asRecordObject(input.payload)
          /\ IsArray(input.payload.ledgers)
       THEN input.payload.ledgers.items
       ELSE <<>>

\* the items of the records array of a raw ledger
RecordElements(l) == IF IsArray(l.records) THEN l.records.items ELSE <<>>

\* C1: a bare JSON array whose elements are all valid ledgers is imported:
\* normalizeAllImport returns a result, not null.
C1_BareArrayAccepted ==
  (/\ normPc = "done"
   /\ IsArray(rawInput)
   /\ Len(rawInput.items) > 0
   /\ \A i \in 1..Len(rawInput.items) : normalizeLedger(rawInput.items[i]).ok)
  => normalized.ok

\* C2: when one ledger element of an "all data" file fails normalizeLedger, or
\* one record item of one of its ledgers fails normalizeTradeRecord, the
\* import returns null as a whole.
C2_FailFast ==
  (/\ normPc = "done"
   /\ \E i \in 1..Len(LedgerElements(rawInput)) :
        LET l == LedgerElements(rawInput)[i]
        IN \/ ~normalizeLedger(l).ok
           \/ \E j \in 1..Len(RecordElements(l)) :
                ~normalizeTradeRecord(RecordElements(l)[j]).ok)
  => ~normalized.ok

\* an enveloped file in which one ledger, valid but for its records, holds a
\* valid record and an invalid one, has been rejected
C2_Witness ==
  /\ normPc = "done"
  /\ asRecordObject(rawInput)
  /\ \E i \in 1..Len(LedgerElements(rawInput)) :
       LET l == LedgerElements(rawInput)[i]
       IN /\ normalizeLedger([l EXCEPT !.records = RawArray(<<>>)]).ok
          /\ \E j, k \in 1..Len(RecordElements(l)) :
               /\ normalizeTradeRecord(RecordElements(l)[j]).ok
               /\ ~normalizeTradeRecord(RecordElements(l)[k]).ok
  /\ ~normalized.ok

SortedByTimestampDesc(records) ==
  \A i, j \in 1..Len(records) :
    i < j => records[i].timestamp >= records[j].timestamp

RangeOf(seq) == {seq[i] : i \in 1..Len(seq)}

\* positions i < j of a file whose two ledgers are valid, share an id, and are
\* the only two elements with that id
TwinPositions(input) ==
  LET els == LedgerElements(input)
  IN {p \in (1..Len(els)) \X (1..Len(els)) :
        /\ p[1] < p[2]
        /\ \A k \in 1..Len(els) : normalizeLedger(els[k]).ok
        /\ normalizeLedger(els[p[1]]).v.id = normalizeLedger(els[p[2]]).v.id
        /\ \A k \in 1..Len(els) :
             normalizeLedger(els[k]).v.id = normalizeLedger(els[p[1]]).v.id
             => k \in {p[1], p[2]}}

\* C5: two ledgers of one file with the same id come out as one ledger: its
\* records are the earlier ledger's plus the later records with a new id, in
\* descending timestamp order; its name is the later name unless that is
\* empty; its createdAt is the smaller of the two.
C5_IntraFileCollapse ==
  (normPc = "done" /\ normalized.ok)
  => \A p \in TwinPositions(rawInput) :
       LET prev == normalizeLedger(LedgerElements(rawInput)[p[1]]).v
           later == normalizeLedger(LedgerElements(rawInput)[p[2]]).v
           hits == {i \in 1..Len(normalized.ledgers) :
                      normalized.ledgers[i].id = prev.id}
       IN /\ Cardinality(hits) = 1
          /\ \A i \in hits :
               LET m == normalized.ledgers[i]
               IN /\ RangeOf(m.records) =
                       RangeOf(prev.records) \cup
                       {r \in RangeOf(later.records) : r.id \notin IdsOf(prev.records)}
                  /\ UniqueIds(m.records)
                  /\ SortedByTimestampDesc(m.records)
                  /\ m.name = (IF later.name # "" THEN later.name ELSE prev.name)
                  /\ m.createdAt = Min(prev.createdAt, later.createdAt)

\* a file with two same-id ledgers of different names and founding dates, the
\* later one bringing both a known and a new record id, has been collapsed
C5_Witness ==
  /\ normPc = "done"
  /\ normalized.ok
  /\ \E p \in TwinPositions(rawInput) :
       LET prev == normalizeLedger(LedgerElements(rawInput)[p[1]]).v
           later == normalizeLedger(LedgerElements(rawInput)[p[2]]).v
       IN /\ prev.name # later.name
          /\ later.createdAt < prev.createdAt
          /\ IdsOf(later.records) \cap IdsOf(prev.records) # {}
          /\ IdsOf(later.records) \ IdsOf(prev.records) # {}
          /\ Len(normalized.ledgers) = 1

(***************************************************************************)
(* The merge of an import into a ledger list, and the same import again.   *)
(***************************************************************************)
\* ledger lists the application may hold: ledger ids pairwise distinct
HeldLists == {x \in SeqsUpTo(HeldLedgers, MaxHeldLedgers) : UniqueIds(x)}

\* ledger lists normalizeAllImport may return
NormalizedLists ==
  {dedupeLedgersById(x) : x \in SeqsUpTo(NormalizedLedgers, MaxFileLedgers)}

MergeInit ==
  /\ existing \in HeldLists
  /\ incoming \in NormalizedLists
  /\ merged = <<>>
  /\ remerged = <<>>
  /\ collapsed = <<>>
  /\ mergePc = "ready"
  /\ NormIdle
  /\ DedupeIdle
  /\ PartIdle
  /\ AppInit

MergeOnce ==
  /\ mergePc = "ready"
  /\ merged' = mergeLedgers(existing, incoming)
  /\ mergePc' = "merged"
  /\ UNCHANGED <<existing, incoming, remerged, collapsed, normVars, dedupeVars,
                 partVars, appVars>>

MergeAgain ==
  /\ mergePc = "merged"
  /\ remerged' = mergeLedgers(merged, incoming)
  /\ mergePc' = "remerged"
  /\ UNCHANGED <<existing, incoming, merged, collapsed, normVars, dedupeVars,
                 partVars, appVars>>

\* the two lists as the ledgers of one file, existing first
CollapseFile ==
  /\ mergePc = "ready"
  /\ collapsed' = dedupeLedgersById(existing \o incoming)
  /\ mergePc' = "collapsed"
  /\ UNCHANGED <<existing, incoming, merged, remerged, normVars, dedupeVars,
                 partVars, appVars>>

MergeNext == MergeOnce \/ MergeAgain \/ CollapseFile

SpecMerge == MergeInit /\ [][MergeNext]_vars

\* C4: importing the same normalized file a second time changes nothing:
\* merge(merge(E, I), I) is merge(E, I), ledger for ledger and record for
\* record, in the same order.
C4_ReimportIdempotent == mergePc = "remerged" => remerged = merged

\* the file brought a new ledger and, for a ledger already held, a new
\* record; it has been merged twice
C4_Witness ==
  /\ mergePc = "remerged"
  /\ IdsOf(incoming) \ IdsOf(existing) # {}
  /\ \E i \in 1..Len(existing), j \in 1..Len(incoming) :
       /\ existing[i].id = incoming[j].id
       /\ IdsOf(incoming[j].records) \ IdsOf(existing[i].records) # {}
       /\ IdsOf(incoming[j].records) \cap IdsOf(existing[i].records) # {}
  /\ merged # existing

\* C7: a merge removes nothing: every ledger id held before is held after,
\* and every record id of a held ledger is still in that ledger.
C7_MergeAdditive ==
  (mergePc \in {"merged", "remerged"} /\ UniqueIds(existing))
  => /\ IdsOf(existing) \subseteq IdsOf(merged)
     /\ \A i \in 1..Len(existing) :
          IdsOf(existing[i].records)
            \subseteq IdsOf(MapGet(merged, existing[i].id).records)

\* a held ledger with a record the file lacks has been merged with the
\* file's ledger of the same id
C7_Witness ==
  /\ mergePc = "merged"
  /\ \E i \in 1..Len(existing), j \in 1..Len(incoming) :
       /\ existing[i].id = incoming[j].id
       /\ IdsOf(existing[i].records) \ IdsOf(incoming[j].records) # {}
       /\ IdsOf(incoming[j].records) \ IdsOf(existing[i].records) # {}

(***************************************************************************)
(* The application (App.tsx).                                              *)
(***************************************************************************)
\* a text of the interface in the language of the closure
Text(lg, en, zh) == IF lg = "zh" THEN zh ELSE en

\* an application without that effect
SettledActiveAsSet(active, ls, showMaster) == active

\* the effect that leaves the master view once the master ledger is hidden:
\* setActiveLedgerId(ledgers[0]?.id || "")
SettledActive(active, ls, showMaster) ==
  IF ~showMaster /\ active = "master"
  THEN IF ls # <<>> THEN ls[1].id ELSE ""
  ELSE active

\* prev.map(l => l.id === id ? f(l) : l) with f replacing the records
WithRecords(ls, id, recordsOf(_)) ==
  [i \in 1..Len(ls) |->
     IF ls[i].id = id THEN [ls[i] EXCEPT !.records = recordsOf(ls[i])] ELSE ls[i]]

\* ledgers.filter(l => l.id !== id), records.filter(r => r.id !== id)
RECURSIVE WithoutId(_, _)
WithoutId(seq, id) ==
  IF seq = <<>> THEN <<>>
  ELSE IF Head(seq).id = id THEN WithoutId(Tail(seq), id)
       ELSE <<Head(seq)>> \o WithoutId(Tail(seq), id)

RemoveAt(seq, i) == [k \in 1..(Len(seq) - 1) |-> IF k < i THEN seq[k] ELSE seq[k + 1]]

\* one more operation of the user; the operations of the application do not
\* touch the variables of the function specifications
UserOp ==
  /\ opsDone < MaxOps
  /\ opsDone' = opsDone + 1
  /\ confirmAnswer' = "none"
  /\ UNCHANGED <<normVars, mergeVars, dedupeVars, partVars>>

\* what Date.now() can return: the clock never goes back
ClockReadings == now..MaxTime

\* what the user types into the name dialog
NameInputs == {"B", " "}

\* handleModalConfirm, type "create"
CreateLedger ==
  \E value \in NameInputs :
    /\ UserOp
    /\ ledgerIdsMade < MaxLedgerIds
    /\ IF Trim(value) # ""
       THEN \E t \in ClockReadings :
              LET newId == generateLedgerId(ledgerIdsMade + 1)
                  newLedger == [id |-> newId, name |-> Trim(value),
                                createdAt |-> t, records |-> <<>>]
              IN /\ ledgers' = Append(ledgers, newLedger)
                 /\ activeLedgerId' = newId
                 /\ ledgerIdsMade' = ledgerIdsMade + 1
                 /\ now' = t
       ELSE UNCHANGED <<ledgers, activeLedgerId, ledgerIdsMade, now>>
    /\ UNCHANGED <<lang, theme, showMasterLedger, transferToast, inflight,
                   recordIdsMade>>

\* renameLedger followed by handleModalConfirm, type "rename"
RenameLedger ==
  \E targetId \in IdsOf(ledgers), value \in NameInputs :
    /\ UserOp
    /\ IF Trim(value) # ""
       THEN ledgers' = [i \in 1..Len(ledgers) |->
                          IF ledgers[i].id = targetId
                          THEN [ledgers[i] EXCEPT !.name = Trim(value)]
                          ELSE ledgers[i]]
       ELSE UNCHANGED ledgers
    /\ UNCHANGED <<activeLedgerId, lang, theme, showMasterLedger, transferToast,
                   inflight, now, ledgerIdsMade, recordIdsMade>>

DeleteLedger ==
  \E id \in IdsOf(ledgers) :
    LET filtered == WithoutId(ledgers, id)
        nextActive == IF activeLedgerId = id
                      THEN IF filtered # <<>> THEN filtered[1].id
                           ELSE IF showMasterLedger THEN "master" ELSE ""
                      ELSE activeLedgerId
    IN /\ UserOp
       /\ ledgers' = filtered
       /\ activeLedgerId' = SettledActive(nextActive, filtered, showMasterLedger)
       /\ UNCHANGED <<lang, theme, showMasterLedger, transferToast, inflight, now,
                      ledgerIdsMade, recordIdsMade>>

NoRecords(l) == <<>>

ClearLedger ==
  \E ledgerId \in IdsOf(ledgers) :
    /\ UserOp
    /\ ledgers' = WithRecords(ledgers, ledgerId, NoRecords)
    /\ UNCHANGED <<activeLedgerId, lang, theme, showMasterLedger, transferToast,
                   inflight, now, ledgerIdsMade, recordIdsMade>>

\* the "deleteMaster" confirmation: setShowMasterLedger(false)
HideMasterLedger ==
  /\ showMasterLedger
  /\ UserOp
  /\ showMasterLedger' = FALSE
  /\ activeLedgerId' = SettledActive(activeLedgerId, ledgers, FALSE)
  /\ UNCHANGED <<ledgers, lang, theme, transferToast, inflight, now,
                 ledgerIdsMade, recordIdsMade>>

ShowMasterLedger ==
  /\ ~showMasterLedger
  /\ UserOp
  /\ showMasterLedger' = TRUE
  /\ UNCHANGED <<ledgers, activeLedgerId, lang, theme, transferToast, inflight,
                 now, ledgerIdsMade, recordIdsMade>>

\* the entries of the ledger menu: setActiveLedgerId
SelectLedger ==
  \E id \in IdsOf(ledgers) \cup (IF showMasterLedger THEN {"master"} ELSE {}) :
    /\ UserOp
    /\ activeLedgerId' = id
    /\ UNCHANGED <<ledgers, lang, theme, showMasterLedger, transferToast,
                   inflight, now, ledgerIdsMade, recordIdsMade>>

ToggleLang ==
  /\ UserOp
  /\ lang' = IF lang = "en" THEN "zh" ELSE "en"
  /\ UNCHANGED <<ledgers, activeLedgerId, theme, showMasterLedger, transferToast,
                 inflight, now, ledgerIdsMade, recordIdsMade>>

ToggleTheme ==
  /\ UserOp
  /\ theme' = IF theme = "dark" THEN "light" ELSE "dark"
  /\ UNCHANGED <<ledgers, activeLedgerId, lang, showMasterLedger, transferToast,
                 inflight, now, ledgerIdsMade, recordIdsMade>>

\* what the user submits in the trade form: the form as it opens, and a sale
FormInputs ==
  {[grams |-> "0", costPrice |-> "0", sellingPrice |-> "0",
    handlingFeeRate |-> "0", desiredPrice |-> ""],
   [grams |-> "1", costPrice |-> "1", sellingPrice |-> "2",
    handlingFeeRate |-> "0", desiredPrice |-> ""]}

\* handleSubmit of TradeForm calling addRecord
\* an addRecord that files the record under the first ledger while no
\* ledger is active
AddRecordToFirstLedger ==
  \E formData \in FormInputs, t \in ClockReadings :
    LET made == handleSubmit(formData, generateRecordId(recordIdsMade + 1), t)
        Prepended(l) == <<made.v>> \o l.records
    IN /\ UserOp
       /\ now' = t
       /\ recordIdsMade < MaxRecordIds
       /\ made.ok
       /\ recordIdsMade' = recordIdsMade + 1
       /\ IF activeLedgerId = "" \/ activeLedgerId = "master"
          THEN IF ledgers = <<>> THEN UNCHANGED ledgers
               ELSE ledgers' = WithRecords(ledgers, ledgers[1].id, Prepended)
          ELSE ledgers' = WithRecords(ledgers, activeLedgerId, Prepended)
       /\ UNCHANGED <<activeLedgerId, lang, theme, showMasterLedger,
                      transferToast, inflight, ledgerIdsMade>>

AddRecord ==
  \E formData \in FormInputs, t \in ClockReadings :
    LET made == handleSubmit(formData, generateRecordId(recordIdsMade + 1), t)
        Prepended(l) == <<made.v>> \o l.records
    IN /\ UserOp
       /\ now' = t
       /\ recordIdsMade < MaxRecordIds
       /\ made.ok
       /\ recordIdsMade' = recordIdsMade + 1
       /\ IF activeLedgerId = "" \/ activeLedgerId = "master"
          THEN UNCHANGED ledgers
          ELSE ledgers' = WithRecords(ledgers, activeLedgerId, Prepended)
       /\ UNCHANGED <<activeLedgerId, lang, theme, showMasterLedger,
                      transferToast, inflight, ledgerIdsMade>>

\* the ids of the records on display
ShownRecordIds == UNION {IdsOf(ledgers[i].records) : i \in 1..Len(ledgers)}

RemoveRecord ==
  \E id \in ShownRecordIds :
    LET Filtered(l) == WithoutId(l.records, id)
    IN /\ UserOp
       /\ IF activeLedgerId = "" \/ activeLedgerId = "master"
          THEN UNCHANGED ledgers
          ELSE ledgers' = WithRecords(ledgers, activeLedgerId, Filtered)
       /\ UNCHANGED <<activeLedgerId, lang, theme, showMasterLedger,
                      transferToast, inflight, now, ledgerIdsMade, recordIdsMade>>

(***************************************************************************)
(* Import files the user may pick.  A file is its text decoded by          *)
(* JSON.parse, or a text JSON.parse throws on.                             *)
(***************************************************************************)
Parsed(value) == [parses |-> TRUE, value |-> value]
Malformed == [parses |-> FALSE, value |-> UntaggedObject]

FileLedgerA == LedgerOf([id |-> "L1", name |-> "A", createdAt |-> 2],
                        <<TradeOf("r1", 1)>>)
FileLedgerB == LedgerOf([id |-> "L1", name |-> "B", createdAt |-> 1],
                        <<TradeOf("r2", 2), TradeOf("r1", 1)>>)
FileLedgerC == LedgerOf([id |-> "L2", name |-> "A", createdAt |-> 1],
                        <<TradeOf("r2", 2)>>)

\* a ledger whose second record lost its profitMargin
BrokenLedger ==
  [JsonLedger(FileLedgerB) EXCEPT
     !.records = RawArray(<<JsonRecord(TradeOf("r2", 2)),
                            [GoodRecord EXCEPT !.profitMargin = Null]>>)]

\* "all data" files: backups made elsewhere, a broken one, a text that is
\* not JSON
AllDataFiles ==
  {Parsed(AllEnvelope(<<JsonLedger(FileLedgerA)>>, Str("L1"), Str("en"), Str("dark"))),
   Parsed(AllEnvelope(<<JsonLedger(FileLedgerC), JsonLedger(FileLedgerB)>>,
                      Str("master"), Undefined, Undefined)),
   Parsed(AllEnvelope(<<JsonLedger(FileLedgerC), BrokenLedger>>,
                      Str("L2"), Str("en"), Str("dark"))),
   Malformed}

\* a backup of this installation: it holds the first ledger made here
BackupFile ==
  Parsed(AllEnvelope(<<JsonLedger(LedgerOf([id |-> generateLedgerId(1), name |-> "B",
                                            createdAt |-> FirstTime],
                                           <<TradeOf("r1", 1)>>))>>,
                     Str(generateLedgerId(1)), Str("zh"), Str("light")))

\* single-ledger files
LedgerFiles ==
  {Parsed(exportLedgerJson(FileLedgerB)),
   Parsed(BareLedger(JsonLedger(FileLedgerC))),
   Parsed(RawEnvelope(Str("ledger"),
                      RawPayload(ScalarAsArray(Undefined), Undefined, Undefined,
                                 Undefined, BrokenLedger))),
   Malformed}

(***************************************************************************)
(* importAllDataJson and importLedgerJson.  Each runs in two steps: the    *)
(* call, which starts readJsonFromFile with the values of its render in    *)
(* the closure, and the continuation after the await, which runs to its    *)
(* end without interruption (window.confirm blocks).                       *)
(***************************************************************************)
\* what an import in flight carries: its arguments and what its continuation
\* reads of the render it closes over (importAllDataJson reads lang and
\* showMasterLedger; importLedgerJson reads lang and, of ledgers, the ids and
\* the names)
ImportAllTask(file, mode) ==
  [kind |-> "all", file |-> file, mode |-> mode, targetLedgerId |-> "", lang |-> lang,
   showMasterLedger |-> showMasterLedger, ledgerIds |-> {}, ledgerNames |-> {}]

ImportLedgerTask(file, mode, targetLedgerId) ==
  [kind |-> "ledger", file |-> file, mode |-> mode, targetLedgerId |-> targetLedgerId,
   lang |-> lang, showMasterLedger |-> showMasterLedger,
   ledgerIds |-> IdsOf(ledgers),
   ledgerNames |-> {Trim(ledgers[k].name) : k \in 1..Len(ledgers)}]

\* the files the user can pick now: a backup holds an id of generateId only
\* once generateId has returned it
PickableAllDataFiles ==
  AllDataFiles \cup (IF ledgerIdsMade >= 1 THEN {BackupFile} ELSE {})

StartImportAll ==
  \E file \in PickableAllDataFiles, mode \in {"merge", "replace"} :
    /\ UserOp
    /\ Len(inflight) < MaxInFlight
    /\ inflight' = Append(inflight, ImportAllTask(file, mode))
    /\ UNCHANGED <<ledgers, activeLedgerId, lang, theme, showMasterLedger,
                   transferToast, now, ledgerIdsMade, recordIdsMade>>

\* selectedLedgerId of DataTransferModal: the active ledger unless the master
\* view is active, or any entry of the select
SelectableLedgerIds ==
  IdsOf(ledgers)
  \cup {IF activeLedgerId # "master" THEN activeLedgerId
        ELSE IF ledgers # <<>> THEN ledgers[1].id ELSE ""}

StartImportLedger ==
  \E file \in LedgerFiles, mode \in {"asNew", "replace"},
     selectedLedgerId \in SelectableLedgerIds :
    /\ UserOp
    /\ Len(inflight) < MaxInFlight
    /\ mode = "replace" => selectedLedgerId # ""
    /\ inflight' = Append(inflight, ImportLedgerTask(file, mode, selectedLedgerId))
    /\ UNCHANGED <<ledgers, activeLedgerId, lang, theme, showMasterLedger,
                   transferToast, now, ledgerIdsMade, recordIdsMade>>

Danger(message) == [message |-> message, variant |-> "danger"]
Success(message) == [message |-> message, variant |-> "success"]

\* nextActive of the replace branch of importAllDataJson
NextActive(importedActive, nextLedgers, showMaster) ==
  IF ~Falsy(importedActive) /\ importedActive.s # "master"
     /\ importedActive.s \in IdsOf(nextLedgers)
  THEN importedActive.s
  ELSE IF importedActive = Str("master") /\ showMaster THEN "master"
  ELSE IF nextLedgers # <<>> THEN nextLedgers[1].id
  ELSE IF showMaster THEN "master"
  ELSE ""

CatchImportErrorReset(message) ==
  /\ transferToast' = Danger(message)
  /\ ledgers' = <<>>
  /\ activeLedgerId' = SettledActive("master", <<>>, showMasterLedger)
  /\ UNCHANGED <<lang, theme, ledgerIdsMade>>

\* the catch block of both imports: the message is shown, no state is set
CatchImportError(message) ==
  /\ transferToast' = Danger(message)
  /\ UNCHANGED <<ledgers, activeLedgerId, lang, theme, ledgerIdsMade>>

\* the value of window.confirm as confirmAnswer keeps it
Answer(ok) == IF ok THEN "ok" ELSE "cancel"

\* a declined confirmation reported as a failed import
ConfirmDeclinedAsFailure(task) ==
  CatchImportError(Text(task.lang, "Import failed", "zh-Import failed"))

\* if (!ok) return: nothing is set, no message is shown
ConfirmDeclined(task) ==
  UNCHANGED <<ledgers, activeLedgerId, lang, theme, transferToast, ledgerIdsMade>>

\* a replace branch that keeps the ledgers held and adds the file's to them
ReplaceAllKeepingHeld(task, result) ==
  /\ ledgers' = mergeLedgers(ledgers, result.ledgers)
  /\ activeLedgerId' =
       SettledActive(NextActive(result.activeLedgerId, ledgers',
                                task.showMasterLedger),
                     ledgers', showMasterLedger)
  /\ lang' = IF result.lang # Undefined THEN result.lang.s ELSE lang
  /\ theme' = IF result.theme # Undefined THEN result.theme.s ELSE theme
  /\ transferToast' =
       Success(Text(task.lang, "Import completed", "zh-Import completed"))
  /\ UNCHANGED ledgerIdsMade

\* the replace branch of importAllDataJson once confirmed: the ledgers of
\* the file are set, then the active ledger, lang and theme
ReplaceAll(task, result) ==
  /\ ledgers' = result.ledgers
  /\ activeLedgerId' =
       SettledActive(NextActive(result.activeLedgerId, result.ledgers,
                                task.showMasterLedger),
                     result.ledgers, showMasterLedger)
  /\ lang' = IF result.lang # Undefined THEN result.lang.s ELSE lang
  /\ theme' = IF result.theme # Undefined THEN result.theme.s ELSE theme
  /\ transferToast' =
       Success(Text(task.lang, "Import completed", "zh-Import completed"))
  /\ UNCHANGED ledgerIdsMade

\* the failure of a task's file before anything is set: JSON.parse throws, or
\* the normalizer returns null
FileFails(task) ==
  \/ ~task.file.parses
  \/ task.kind = "all" /\ ~normalizeAllImport(task.file.value).ok
  \/ task.kind = "ledger" /\ ~normalizeLedgerImport(task.file.value).ok

\* the continuation of importAllDataJson for the task at position i, the
\* user answering the confirmation with ok
FinishImportAll ==
  \E i \in 1..Len(inflight), ok \in BOOLEAN :
    LET task == inflight[i]
    IN \E result \in {normalizeAllImport(task.file.value)} :
       /\ task.kind = "all"
       /\ inflight' = RemoveAt(inflight, i)
       /\ confirmAnswer' =
            IF task.file.parses /\ result.ok /\ task.mode = "replace"
            THEN Answer(ok) ELSE "none"
       /\ IF ~task.file.parses
          THEN CatchImportError("Unexpected token")
          ELSE IF ~result.ok
          THEN CatchImportError(Text(task.lang, "Unsupported JSON",
                                     "zh-Unsupported JSON"))
          ELSE IF task.mode = "replace"
          THEN IF ~ok
               THEN ConfirmDeclined(task)
               ELSE ReplaceAll(task, result)
          ELSE /\ ledgers' = mergeLedgers(ledgers, result.ledgers)
               /\ activeLedgerId' =
                    SettledActive(activeLedgerId, ledgers', showMasterLedger)
               /\ transferToast' =
                    Success(Text(task.lang, "Import completed", "zh-Import completed"))
               /\ UNCHANGED <<lang, theme, ledgerIdsMade>>
       /\ UNCHANGED <<showMasterLedger, now, recordIdsMade, opsDone>>
       /\ UNCHANGED <<normVars, mergeVars, dedupeVars, partVars>>

\* a replace that gives the file's records to every ledger
ReplaceRecordsEverywhere(prev, targetLedgerId, records) ==
  [k \in 1..Len(prev) |-> [prev[k] EXCEPT !.records = records]]

\* prev.map(l => l.id === targetLedgerId ? { ...l, records: ledger.records } : l)
ReplaceRecords(prev, targetLedgerId, records) ==
  [k \in 1..Len(prev) |->
     IF prev[k].id = targetLedgerId THEN [prev[k] EXCEPT !.records = records]
     ELSE prev[k]]

\* the continuation of importLedgerJson for the task at position i
FinishImportLedger ==
  \E i \in 1..Len(inflight), ok \in BOOLEAN :
    \E ledger \in {normalizeLedgerImport(inflight[i].file.value)} :
    LET task == inflight[i]
        existingNames == task.ledgerNames
        baseName == IF Trim(ledger.v.name) # "" THEN Trim(ledger.v.name)
                    ELSE Text(task.lang, "Imported Ledger", "zh-Imported Ledger")
        name == FreeNameFrom(baseName, baseName, task.lang, 2, existingNames)
        newId == generateLedgerId(ledgerIdsMade + 1)
    IN /\ task.kind = "ledger"
       /\ inflight' = RemoveAt(inflight, i)
       /\ confirmAnswer' =
            IF task.file.parses /\ ledger.ok /\ task.mode = "replace"
               /\ task.targetLedgerId \in task.ledgerIds
            THEN Answer(ok) ELSE "none"
       /\ IF ~task.file.parses
          THEN CatchImportError("Unexpected token")
          ELSE IF ~ledger.ok
          THEN CatchImportError(Text(task.lang, "Unsupported JSON",
                                     "zh-Unsupported JSON"))
          ELSE IF task.mode = "asNew"
          THEN /\ ledgerIdsMade < MaxLedgerIds
               /\ ledgers' = Append(ledgers, [ledger.v EXCEPT !.id = newId,
                                                              !.name = name])
               /\ activeLedgerId' = newId
               /\ ledgerIdsMade' = ledgerIdsMade + 1
               /\ transferToast' =
                    Success(Text(task.lang, "Import completed", "zh-Import completed"))
               /\ UNCHANGED <<lang, theme>>
          ELSE IF task.targetLedgerId \notin task.ledgerIds
          THEN CatchImportError(Text(task.lang, "Target ledger not found",
                                     "zh-Target ledger not found"))
          ELSE IF ~ok
          THEN ConfirmDeclined(task)
          ELSE /\ ledgers' = ReplaceRecords(ledgers, task.targetLedgerId,
                                            ledger.v.records)
               /\ activeLedgerId' =
                    SettledActive(activeLedgerId, ledgers', showMasterLedger)
               /\ transferToast' =
                    Success(Text(task.lang, "Import completed", "zh-Import completed"))
               /\ UNCHANGED <<lang, theme, ledgerIdsMade>>
       /\ UNCHANGED <<showMasterLedger, now, recordIdsMade, opsDone>>
       /\ UNCHANGED <<normVars, mergeVars, dedupeVars, partVars>>

Next ==
  \/ CreateLedger
  \/ RenameLedger
  \/ DeleteLedger
  \/ ClearLedger
  \/ HideMasterLedger
  \/ ShowMasterLedger
  \/ SelectLedger
  \/ ToggleLang
  \/ ToggleTheme
  \/ AddRecord
  \/ RemoveRecord
  \/ StartImportAll
  \/ FinishImportAll
  \/ StartImportLedger
  \/ FinishImportLedger

Init == AppInit /\ NormIdle /\ MergeIdle /\ DedupeIdle /\ PartIdle

Spec == Init /\ [][Next]_vars

(***************************************************************************)
(* The steps of an import, read off two consecutive states.                *)
(***************************************************************************)
\* the step takes the task at position i out of the in-flight imports
Finishes(i) == i \in 1..Len(inflight) /\ inflight' = RemoveAt(inflight, i)

\* the step puts one more import in flight
StartsImport == Len(inflight') = Len(inflight) + 1

\* the ledger of the list with the given id
LedgerWithId(ls, id) == ls[CHOOSE i \in 1..Len(ls) : ls[i].id = id]

\* C3: a step that starts an import, or that ends an import whose file does
\* not parse or does not normalize, leaves ledgers, activeLedgerId, lang and
\* theme as they were, whatever the mode.
C3_FailedImportChangesNothing ==
  [][(\/ StartsImport
      \/ \E i \in 1..Len(inflight) : Finishes(i) /\ FileFails(inflight[i]))
     => UNCHANGED <<ledgers, activeLedgerId, lang, theme>>]_vars

\* a failed import has ended in a state that holds ledgers and whose language
\* is not the initial one
C3_Witness ==
  /\ transferToast = Danger("Unsupported JSON")
  /\ inflight = <<>>
  /\ ledgers # <<>>
  /\ lang = "en"

\* C6: when a merge-mode import of all data ends, every ledger of the file
\* whose id the application already holds has, in the new list, the name of
\* the file (when not empty), the smaller of the two createdAt, and the
\* records of both by id, newest first.
C6_MergeImportResolvesConflict ==
  [][\A i \in 1..Len(inflight) :
       LET task == inflight[i]
           result == normalizeAllImport(task.file.value)
       IN (Finishes(i) /\ task.kind = "all" /\ task.mode = "merge"
           /\ ~FileFails(task))
          => \A k \in 1..Len(result.ledgers) :
               LET inc == result.ledgers[k]
               IN inc.id \in IdsOf(ledgers)
                  => LET old == LedgerWithId(ledgers, inc.id)
                         new == LedgerWithId(ledgers', inc.id)
                     IN /\ inc.id \in IdsOf(ledgers')
                        /\ new.name = (IF inc.name # "" THEN inc.name ELSE old.name)
                        /\ new.createdAt = Min(old.createdAt, inc.createdAt)
                        /\ IdsOf(new.records) = IdsOf(old.records) \cup IdsOf(inc.records)
                        /\ UniqueIds(new.records)
                        /\ SortedByTimestampDesc(new.records)]_vars

\* a ledger with its records in the order an import gives them
Canonical(l) == [l EXCEPT !.records = SortByTimestampDesc(l.records)]

\* C8: normalizeAllImport of the all-data export of the ledgers held returns
\* the same ledgers, field for field, each with its records newest first.
C8_RoundTrip ==
  LET back == normalizeAllImport(exportAllDataJson(ledgers, activeLedgerId, lang, theme))
  IN /\ back.ok
     /\ RangeOf(back.ledgers) = {Canonical(ledgers[i]) : i \in 1..Len(ledgers)}

\* C9: no two ledgers of the list have the same id.
C9_LedgerIdsUnique == UniqueIds(ledgers)

\* a ledger made here and a ledger of a file are held together after an
\* import of all data that met an id already held
C9_Witness ==
  /\ generateLedgerId(1) \in IdsOf(ledgers)
  /\ "L1" \in IdsOf(ledgers)
  /\ Len(ledgers) >= 2
  /\ transferToast.variant = "success"
  /\ transferToast.message # ""

\* C10: no ledger holds two records with the same id.
C10_RecordIdsUnique == \A i \in 1..Len(ledgers) : UniqueIds(ledgers[i].records)

\* a ledger holds the records of two files that had one record in common
C10_Witness ==
  \E i \in 1..Len(ledgers) :
    /\ ledgers[i].id = "L1"
    /\ ledgers[i].name = "A"
    /\ IdsOf(ledgers[i].records) = {"r1", "r2"}

(***************************************************************************)
(* Merging the ledgers held with their own export.                         *)
(***************************************************************************)
\* what normalizeAllImport makes of the all-data export of the current state
OwnExport ==
  normalizeAllImport(exportAllDataJson(ledgers, activeLedgerId, lang, theme))

\* the ledgers a merge-mode import of that export leaves: the merge when the
\* export is accepted, the ledgers as they are when it is refused
SelfMerged ==
  LET own == OwnExport
  IN IF own.ok THEN mergeLedgers(ledgers, own.ledgers) ELSE ledgers

OldestFirst(ls) ==
  \A i, j \in 1..Len(ls) : i < j => ls[i].createdAt <= ls[j].createdAt

PermutationsOf(seq) ==
  {[i \in 1..Len(seq) |-> seq[p[i]]] :
     p \in {q \in [1..Len(seq) -> 1..Len(seq)] :
              \A i, j \in 1..Len(seq) : q[i] = q[j] => i = j}}

DedupeInit ==
  /\ fileLedgers \in SeqsUpTo(NormalizedLedgers, MaxFileLedgers)
  /\ fileLedgersPermuted \in PermutationsOf(fileLedgers)
  /\ deduped = <<>>
  /\ dedupedPermuted = <<>>
  /\ dedupePc = "ready"
  /\ NormIdle
  /\ MergeIdle
  /\ PartIdle
  /\ AppInit

DedupeBoth ==
  /\ dedupePc = "ready"
  /\ deduped' = dedupeLedgersById(fileLedgers)
  /\ dedupedPermuted' = dedupeLedgersById(fileLedgersPermuted)
  /\ dedupePc' = "done"
  /\ UNCHANGED <<fileLedgers, fileLedgersPermuted, normVars, mergeVars, partVars,
                 appVars>>

DedupeNext == DedupeBoth

SpecDedupe == DedupeInit /\ [][DedupeNext]_vars

\* C12: the ledgers of a file in any order collapse to the same set of
\* ledgers, each with the same name, the same createdAt and the same set of
\* records, field for field.
C12_OrderInsensitive ==
  dedupePc = "done" =>
    /\ IdsOf(deduped) = IdsOf(dedupedPermuted)
    /\ \A id \in IdsOf(deduped) :
         LET a == LedgerWithId(deduped, id)
             b == LedgerWithId(dedupedPermuted, id)
         IN /\ a.name = b.name
            /\ a.createdAt = b.createdAt
            /\ RangeOf(a.records) = RangeOf(b.records)

\* the names the ledgers of the list with this id carry
NamesOf(ls, id) == {ls[i].name : i \in {k \in 1..Len(ls) : ls[k].id = id}}

\* the records the ledgers of the list with this id carry
RecordsOf(ls, id) ==
  UNION {RangeOf(ls[i].records) : i \in {k \in 1..Len(ls) : ls[k].id = id}}

\* C12 (amended): the ledgers of a file in any order collapse to the same set
\* of ledger ids, each with the same createdAt and the same set of record
\* ids; the name is one of the names the file gives that id and every record
\* is one of the records the file gives that ledger, which of them depending
\* on the order.
C12_OrderInsensitiveIds ==
  dedupePc = "done" =>
    /\ IdsOf(deduped) = IdsOf(dedupedPermuted)
    /\ \A id \in IdsOf(deduped) :
         LET a == LedgerWithId(deduped, id)
             b == LedgerWithId(dedupedPermuted, id)
         IN /\ a.createdAt = b.createdAt
            /\ IdsOf(a.records) = IdsOf(b.records)
            /\ {a.name, b.name} \subseteq NamesOf(fileLedgers, id)
            /\ RangeOf(a.records) \cup RangeOf(b.records)
                 \subseteq RecordsOf(fileLedgers, id)

\* two ledgers of one id with different names, different createdAt and a
\* record of one id with different fields have been collapsed in both orders
C12_Witness ==
  /\ dedupePc = "done"
  /\ fileLedgersPermuted # fileLedgers
  /\ \E id \in IdsOf(deduped) :
       LET a == LedgerWithId(deduped, id)
           b == LedgerWithId(dedupedPermuted, id)
       IN /\ a.name # b.name
          /\ RangeOf(a.records) # RangeOf(b.records)
          /\ \E i, j \in 1..Len(fileLedgers) :
               /\ fileLedgers[i].id = id /\ fileLedgers[j].id = id
               /\ fileLedgers[i].createdAt # fileLedgers[j].createdAt

(***************************************************************************)
(* normalizeTradeRecord and normalizeLedger applied to one decoded value.  *)
(***************************************************************************)
\* records of one ledger array
MaxLedgerRecords == 3

\* the ten fields of a TradeRecord that are numbers
NumericFields == NumFields \cup {"timestamp"}

\* what a field of a decoded object can hold
FieldValues ==
  {Num(2), Str("2"), Str(" 2 "), Str("abc"), Str(" "), Str(""), NaN, Infinity,
   Null, Undefined, True, EmptyObject, EmptyArray}

IdValues == {Str("r1"), Str(""), Num(1), Null, Undefined, True}

\* values handed to normalizeTradeRecord: a good record with one field
\* replaced, with a field the type does not know, with every number as a
\* string, and values that are no object
RecordInputs ==
  {[GoodRecord EXCEPT ![f] = v] : f \in NumericFields, v \in FieldValues}
  \cup {[GoodRecord EXCEPT !.id = v] : v \in IdValues}
  \cup {[GoodRecord EXCEPT !.extra = Str("x")], StringyRecord}
  \cup {ScalarAsRecord(v) : v \in {Num(42), Str("r1"), Null, Undefined, True, EmptyArray}}

\* items of a records array: r1 with two timestamps, r2 and r3 sharing the
\* later one, r4 newer, and an item that is no record
ArrayItems ==
  {JsonRecord(TradeOf("r1", 1)), JsonRecord(TradeOf("r1", 2)),
   JsonRecord(TradeOf("r2", 2)), JsonRecord(TradeOf("r3", 2)),
   JsonRecord(TradeOf("r4", 3)), [GoodRecord EXCEPT !.profitMargin = Null]}

\* values handed to normalizeLedger: a ledger over every short array of
\* items, a good ledger with id, name, createdAt or records replaced, and
\* values that are no object
LedgerInputs ==
  {RawLedger(Str("L1"), Str("A"), Num(2), RawArray(items)) :
     items \in SeqsUpTo(ArrayItems, MaxLedgerRecords)}
  \cup {[GoodLedger EXCEPT !.id = v] : v \in IdValues}
  \cup {[GoodLedger EXCEPT !.name = v] : v \in IdValues}
  \cup {[GoodLedger EXCEPT !.createdAt = v] : v \in FieldValues}
  \cup {[GoodLedger EXCEPT !.records = ScalarAsArray(v)] :
          v \in {Undefined, Null, EmptyObject, Str("r1"), Num(1)}}
  \cup {ScalarAsLedger(v) : v \in {Num(42), Str("L1"), Null, Undefined, EmptyArray}}

\* the nine characters a file name must not hold, and white space
ForbiddenChars == {"\\", "/", ":", "*", "?", "\"", "<", ">", "|"}
WhitespaceChars == {" ", "\t"}

\* the string without its leading characters of the class
DropLeading(s, class) ==
  LET others == {i \in 1..Len(s) : s[i] \notin class}
  IN IF others = {} THEN <<>>
     ELSE SubSeq(s, CHOOSE i \in others : \A k \in others : i <= k, Len(s))

\* a replace without the +: every character of the class becomes one "by"
ReplaceEach(s, class, by) ==
  [i \in 1..Len(s) |-> IF s[i] \in class THEN by ELSE s[i]]

\* s.replace(/[class]+/g, by): every maximal run of characters of the class
\* becomes one "by"; what is left of a run is its first position
ReplaceRuns(s, class, by) ==
  LET RunGoesOn(i) == i > 1 /\ s[i] \in class /\ s[i - 1] \in class
      left == SelectSeq([i \in 1..Len(s) |-> i], LAMBDA i : ~RunGoesOn(i))
  IN [k \in 1..Len(left) |-> IF s[left[k]] \in class THEN by ELSE s[left[k]]]

\* s.trim()
Reversed(s) == [i \in 1..Len(s) |-> s[Len(s) + 1 - i]]
TrimString(s) ==
  Reversed(DropLeading(Reversed(DropLeading(s, WhitespaceChars)), WhitespaceChars))

\* s.slice(0, n)
SliceFromStart(s, n) == SubSeq(s, 1, Min(n, Len(s)))

MaxFilenameLength == 80
DefaultFilename == <<"a", "u", "r", "a", "g", "o", "l", "d">>

safeFilename(name) ==
  LET cut == SliceFromStart(
               TrimString(ReplaceRuns(ReplaceRuns(name, ForbiddenChars, "-"),
                                      WhitespaceChars, " ")),
               MaxFilenameLength)
  IN IF cut = <<>> THEN DefaultFilename ELSE cut

\* short names are every string of up to MaxNameLen characters
MaxNameLen == 3
NameChars == {"a", " ", "\t", "/", "*"}

\* k times the letter a
Letters(k) == [i \in 1..k |-> "a"]

\* names handed to safeFilename: every short string, and strings around the
\* length limit with any character before and after a run of letters
NameInputs80 ==
  SeqsUpTo(NameChars, MaxNameLen)
  \cup {p \o Letters(k) \o q :
          p \in SeqsUpTo(NameChars, 1), q \in SeqsUpTo(NameChars, 2),
          k \in (MaxFilenameLength - 3)..(MaxFilenameLength + 1)}

PartInit ==
  /\ \/ /\ partPc = "record"
        /\ rawRecord \in RecordInputs
        /\ rawLedger = ScalarAsLedger(Undefined)
        /\ exportName = <<>>
     \/ /\ partPc = "ledger"
        /\ rawRecord = ScalarAsRecord(Undefined)
        /\ rawLedger \in LedgerInputs
        /\ exportName = <<>>
     \/ /\ partPc = "name"
        /\ rawRecord = ScalarAsRecord(Undefined)
        /\ rawLedger = ScalarAsLedger(Undefined)
        /\ exportName \in NameInputs80
  /\ recordOut = NoneRecord
  /\ ledgerOut = NoneLedger
  /\ filename = <<>>
  /\ NormIdle
  /\ MergeIdle
  /\ DedupeIdle
  /\ AppInit

NormalizeRecord ==
  /\ partPc = "record"
  /\ recordOut' = normalizeTradeRecord(rawRecord)
  /\ partPc' = "recordDone"
  /\ UNCHANGED <<rawRecord, rawLedger, ledgerOut, exportName, filename, normVars,
                 mergeVars, dedupeVars, appVars>>

NormalizeLedger ==
  /\ partPc = "ledger"
  /\ ledgerOut' = normalizeLedger(rawLedger)
  /\ partPc' = "ledgerDone"
  /\ UNCHANGED <<rawRecord, rawLedger, recordOut, exportName, filename, normVars,
                 mergeVars, dedupeVars, appVars>>

SafeFilename ==
  /\ partPc = "name"
  /\ filename' = safeFilename(exportName)
  /\ partPc' = "nameDone"
  /\ UNCHANGED <<rawRecord, rawLedger, recordOut, ledgerOut, exportName, normVars,
                 mergeVars, dedupeVars, appVars>>

PartNext == NormalizeRecord \/ NormalizeLedger \/ SafeFilename

SpecPart == PartInit /\ [][PartNext]_vars

\* the items of the records array handed to normalizeLedger
ItemsOf(value) == IF IsArray(value.records) THEN value.records.items ELSE <<>>

\* the position of the first item of the array that carries this id
FirstWithId(items, id) ==
  CHOOSE i \in 1..Len(items) :
    /\ items[i].id = Str(id)
    /\ \A k \in 1..(i - 1) : items[k].id # Str(id)

\* C13: of several valid records with one id in the array, normalizeLedger
\* returns exactly one, field for field the first in input order, whatever
\* the timestamps of the later ones.
C13_FirstOccurrenceKept ==
  (partPc = "ledgerDone" /\ ledgerOut.ok) =>
    LET items == ItemsOf(rawLedger)
        records == ledgerOut.v.records
    IN /\ UniqueIds(records)
       /\ IdsOf(records) = {items[i].id.s : i \in 1..Len(items)}
       /\ \A k \in 1..Len(records) :
            records[k] = normalizeTradeRecord(items[FirstWithId(items, records[k].id)]).v

\* an accepted array held the same id three times, the first time with the
\* oldest timestamp
C13_Witness ==
  /\ partPc = "ledgerDone"
  /\ ledgerOut.ok
  /\ LET items == ItemsOf(rawLedger)
     IN /\ Len(items) = 3
        /\ \A i \in 1..3 : items[i].id = Str("r1")
        /\ items[1].timestamp = Num(1)
        /\ items[2].timestamp = Num(2)
        /\ ledgerOut.v.records = <<TradeOf("r1", 1)>>

\* C14: normalizeLedger returns the records newest first, and records of one
\* timestamp in the order in which their ids first occur in the input.
C14_SortedDescStable ==
  (partPc = "ledgerDone" /\ ledgerOut.ok) =>
    LET items == ItemsOf(rawLedger)
        records == ledgerOut.v.records
    IN \A i, j \in 1..Len(records) :
         i < j =>
           /\ records[i].timestamp >= records[j].timestamp
           /\ records[i].timestamp = records[j].timestamp
                => FirstWithId(items, records[i].id) < FirstWithId(items, records[j].id)

\* an accepted array listed an old record, then two of one later timestamp
C14_Witness ==
  /\ partPc = "ledgerDone"
  /\ ledgerOut.ok
  /\ ItemsOf(rawLedger) = <<JsonRecord(TradeOf("r1", 1)), JsonRecord(TradeOf("r3", 2)),
                            JsonRecord(TradeOf("r2", 2))>>
  /\ ledgerOut.v.records = <<TradeOf("r3", 2), TradeOf("r2", 2), TradeOf("r1", 1)>>

\* the value is an object tagged schema "auragold.export", kind "all"
TaggedAll(input) ==
  /\ input.t = "object"
  /\ input.schema = Str("auragold.export")
  /\ input.kind = Str("all")

\* C15: normalizeAllImport returns null for every value that is neither an
\* object tagged as an "all" export nor an array: numbers, strings, null,
\* untagged objects, bare ledgers, envelopes of another schema or kind.
C15_UnrecognizedRejected ==
  (normPc = "done" /\ ~TaggedAll(rawInput) /\ rawInput.t # "array")
    => ~normalized.ok

\* a "ledger" envelope around a ledger normalizeLedger accepts has been
\* refused
C15_Witness ==
  /\ normPc = "done"
  /\ rawInput.t = "object"
  /\ rawInput.schema = Str("auragold.export")
  /\ rawInput.kind = Str("ledger")
  /\ normalizeLedger(rawInput.payload.ledger).ok
  /\ ~normalized.ok

\* a finite number, or a string that is not blank and parses to a finite
\* number
FiniteNumberOrNumericString(v) ==
  \/ v.t = "number" /\ v.s = ""
  \/ v.t = "string" /\ ~TrimIsEmpty(v.s) /\ NumberOfString(v.s).t = "number"
       /\ NumberOfString(v.s).s = ""

\* the number such a value stands for
NumberMeant(v) == IF v.t = "number" THEN v ELSE NumberOfString(v.s)

\* the record normalizeTradeRecord builds from an accepted value: the ten
\* fields of a TradeRecord and nothing else
RecordMeant(value) ==
  [f \in NumericFields \cup {"id"} |->
     IF f = "id" THEN value.id.s
     ELSE IF f = "timestamp" THEN NumberMeant(value.timestamp).n
     ELSE NumberMeant(value[f])]

\* the statement as written: an id of string type is enough
C16_AcceptedIffStringId ==
  partPc = "recordDone" =>
    (recordOut.ok <=>
       /\ rawRecord.t = "object"
       /\ rawRecord.id.t = "string"
       /\ \A f \in NumericFields : FiniteNumberOrNumericString(rawRecord[f]))

\* C16: normalizeTradeRecord returns a record exactly when the value is a
\* non-null, non-array object whose id is a non-empty string and whose nine
\* numeric fields are each a finite number or a numeric string; the record
\* returned has exactly the ten fields, the numbers coerced, and nothing of
\* the other fields of the input.
C16_AcceptedIffNonEmptyId ==
  partPc = "recordDone" =>
    /\ recordOut.ok <=>
         /\ rawRecord.t = "object"
         /\ rawRecord.id.t = "string"
         /\ rawRecord.id.s # ""
         /\ \A f \in NumericFields : FiniteNumberOrNumericString(rawRecord[f])
    /\ recordOut.ok =>
         /\ DOMAIN recordOut.v = NumericFields \cup {"id"}
         /\ recordOut.v = RecordMeant(rawRecord)

\* a value with numeric strings in its fields has been accepted, and one
\* with a field the type does not know
C16_Witness ==
  /\ partPc = "recordDone"
  /\ recordOut.ok
  /\ \/ \E f \in NumericFields : rawRecord[f].t = "string"
     \/ rawRecord.extra # Undefined

\* every item of the records array is a value normalizeTradeRecord accepts
EveryItemAccepted(value) ==
  \A i \in 1..Len(value.records.items) :
    normalizeTradeRecord(value.records.items[i]).ok

\* the statement as written: id and name of string type are enough
C17_AcceptedIffStringIdName ==
  partPc = "ledgerDone" =>
    (ledgerOut.ok <=>
       /\ rawLedger.t = "object"
       /\ rawLedger.id.t = "string"
       /\ rawLedger.name.t = "string"
       /\ FiniteNumberOrNumericString(rawLedger.createdAt)
       /\ rawLedger.records.t = "array"
       /\ EveryItemAccepted(rawLedger))

\* C17: normalizeLedger returns a ledger exactly when the value is a
\* non-null, non-array object with id and name non-empty strings, createdAt
\* a finite number or a numeric string, and records an array of which every
\* element is accepted by normalizeTradeRecord; the ledger returned carries
\* that id, name and createdAt.  A missing or non-array records, or an id,
\* name or createdAt of the wrong type, gives null.
C17_AcceptedIffNonEmptyIdName ==
  partPc = "ledgerDone" =>
    /\ ledgerOut.ok <=>
         /\ rawLedger.t = "object"
         /\ rawLedger.id.t = "string" /\ rawLedger.id.s # ""
         /\ rawLedger.name.t = "string" /\ rawLedger.name.s # ""
         /\ FiniteNumberOrNumericString(rawLedger.createdAt)
         /\ rawLedger.records.t = "array"
         /\ EveryItemAccepted(rawLedger)
    /\ ledgerOut.ok =>
         /\ ledgerOut.v.id = rawLedger.id.s
         /\ ledgerOut.v.name = rawLedger.name.s
         /\ ledgerOut.v.createdAt = NumberMeant(rawLedger.createdAt).n

\* a ledger has been refused for one item of its array that is no record,
\* the other items being good ones
C17_Witness ==
  /\ partPc = "ledgerDone"
  /\ ~ledgerOut.ok
  /\ rawLedger.t = "object"
  /\ rawLedger.records.t = "array"
  /\ Len(rawLedger.records.items) >= 2
  /\ \E i \in 1..Len(rawLedger.records.items) :
       normalizeTradeRecord(rawLedger.records.items[i]).ok

\* C18: a replace-mode import of all data, of a file that parses and
\* normalizes, once confirmed, leaves as the list of ledgers exactly the
\* ledgers normalizeAllImport made of the file: no ledger held before that
\* the file lacks is left, and every ledger left has the file's records.
C18_ReplaceSubstitutes ==
  [][\A i \in 1..Len(inflight) :
       (/\ Finishes(i)
        /\ inflight[i].kind = "all"
        /\ inflight[i].mode = "replace"
        /\ ~FileFails(inflight[i])
        /\ confirmAnswer' = "ok")
       => /\ ledgers' = normalizeAllImport(inflight[i].file.value).ledgers
          /\ \A id \in IdsOf(ledgers) :
               id \notin IdsOf(normalizeAllImport(inflight[i].file.value).ledgers)
                 => id \notin IdsOf(ledgers')]_vars

\* a confirmed replace has just put the ledgers of a file in the place of a
\* list that held a ledger the application had created
C18_Witness ==
  /\ confirmAnswer = "ok"
  /\ ledgerIdsMade >= 1
  /\ ledgers # <<>>
  /\ generateLedgerId(1) \notin IdsOf(ledgers)
  /\ \E file \in AllDataFiles :
       /\ normalizeAllImport(file.value).ok
       /\ ledgers = normalizeAllImport(file.value).ledgers

\* C19: the call of an import sets nothing, and the continuation of a
\* replace import (of all data or of one ledger) whose confirmation the user
\* declines leaves ledgers, activeLedgerId, lang, theme and the master
\* switch as they were and shows no message.
C19_DeclinedIsNoOp ==
  [][/\ StartsImport
          => UNCHANGED <<ledgers, activeLedgerId, lang, theme, showMasterLedger,
                         transferToast>>
     /\ \A i \in 1..Len(inflight) :
          (Finishes(i) /\ inflight[i].mode = "replace" /\ confirmAnswer' = "cancel")
            => UNCHANGED <<ledgers, activeLedgerId, lang, theme, showMasterLedger,
                           transferToast, ledgerIdsMade>>]_vars

\* a confirmation has just been declined while ledgers were held
C19_Witness ==
  /\ confirmAnswer = "cancel"
  /\ ledgers # <<>>
  /\ inflight = <<>>

\* C20: the continuation of a ledger-replace import of a valid file whose
\* target id is not in the list of ledgers at that moment shows 'Target
\* ledger not found' and sets nothing.
C20_MissingTargetRejected ==
  [][\A i \in 1..Len(inflight) :
       (/\ Finishes(i)
        /\ inflight[i].kind = "ledger"
        /\ inflight[i].mode = "replace"
        /\ ~FileFails(inflight[i])
        /\ inflight[i].targetLedgerId \notin IdsOf(ledgers))
       => /\ transferToast' \in {Danger("Target ledger not found"),
                                 Danger("zh-Target ledger not found")}
          /\ UNCHANGED <<ledgers, activeLedgerId, lang, theme>>]_vars

\* how often the character occurs in the string
CountOf(s, c) == Cardinality({i \in 1..Len(s) : s[i] = c})

\* the maximal runs of forbidden characters of the string, by first position
ForbiddenRuns(s) ==
  {i \in 1..Len(s) :
     s[i] \in ForbiddenChars /\ (i = 1 \/ s[i - 1] \notin ForbiddenChars)}

\* the characters that are neither forbidden nor white space nor a hyphen
PlainChars(s) ==
  SelectSeq(s, LAMBDA c : c \notin ForbiddenChars \cup WhitespaceChars \cup {"-"})

\* the statement as written: the forbidden characters are deleted
C21_ForbiddenDeleted ==
  partPc = "nameDone" =>
    LET deleted == SliceFromStart(
                     TrimString(ReplaceRuns(
                       SelectSeq(exportName, LAMBDA c : c \notin ForbiddenChars),
                       WhitespaceChars, " ")),
                     MaxFilenameLength)
    IN filename = IF deleted = <<>> THEN DefaultFilename ELSE deleted

\* C21: safeFilename(name) is never empty, is at most 80 characters long and
\* holds none of the nine forbidden characters; it holds no white space but
\* single spaces and does not start with one; every run of forbidden
\* characters of the name has become one hyphen (when nothing was cut off),
\* the other characters are those of the name in their order, and the result
\* is the default string exactly when the name holds white space only.
C21_ForbiddenReplaced ==
  partPc = "nameDone" =>
    /\ filename # <<>>
    /\ Len(filename) <= MaxFilenameLength
    /\ \A i \in 1..Len(filename) :
         /\ filename[i] \notin ForbiddenChars
         /\ filename[i] \in WhitespaceChars => filename[i] = " "
         /\ (i > 1 /\ filename[i] = " ") => filename[i - 1] # " "
    /\ filename[1] # " "
    /\ (\A i \in 1..Len(exportName) : exportName[i] \in WhitespaceChars)
         <=> filename = DefaultFilename
    /\ (\E i \in 1..Len(exportName) : exportName[i] \notin WhitespaceChars)
         => /\ PlainChars(filename)
                 = SubSeq(PlainChars(exportName), 1, Len(PlainChars(filename)))
            /\ Len(exportName) <= MaxFilenameLength
                 => /\ CountOf(filename, "-")
                         = Cardinality(ForbiddenRuns(exportName))
                    /\ PlainChars(filename) = PlainChars(exportName)

\* a name with a run of two forbidden characters has been given one hyphen,
\* and a name longer than the limit has been cut to it
C21_Witness ==
  /\ partPc = "nameDone"
  /\ \/ /\ \E i \in 2..Len(exportName) :
             exportName[i] \in ForbiddenChars /\ exportName[i - 1] \in ForbiddenChars
        /\ CountOf(filename, "-") = 1
     \/ /\ Len(exportName) > MaxFilenameLength
        /\ Len(filename) = MaxFilenameLength

\* the value is an object tagged schema "auragold.export", kind "ledger"
TaggedLedger(input) ==
  /\ input.t = "object"
  /\ input.schema = Str("auragold.export")
  /\ input.kind = Str("ledger")

\* what the single-ledger importer is said to return: the ledger of the
\* payload of a tagged value, the value itself as a ledger otherwise
LedgerMeant(input) ==
  IF TaggedLedger(input) THEN normalizeLedger(input.payload.ledger)
  ELSE normalizeLedger(input)

\* the statement as written: every value tagged as an "all" export, and
\* every array, is refused
C22_AllEnvelopeRefused ==
  normPc = "ledgerDone" =>
    /\ importedLedger = LedgerMeant(rawInput)
    /\ (TaggedAll(rawInput) \/ rawInput.t = "array") => ~importedLedger.ok

\* C22: normalizeLedgerImport(v) is normalizeLedger(v.payload.ledger) when v
\* is an object tagged schema 'auragold.export', kind 'ledger', and
\* normalizeLedger(v) otherwise; an array is refused, and so is a value
\* tagged as an "all" export unless it carries itself the id, name,
\* createdAt and records of a ledger.
C22_LedgerImportClassified ==
  normPc = "ledgerDone" =>
    /\ importedLedger = LedgerMeant(rawInput)
    /\ rawInput.t = "array" => ~importedLedger.ok
    /\ (/\ TaggedAll(rawInput)
        /\ \/ rawInput.id = Undefined
           \/ rawInput.name = Undefined
           \/ rawInput.createdAt = Undefined
           \/ rawInput.records.t = "undefined")
         => ~importedLedger.ok

\* a bare ledger and an enveloped one have been accepted, and an "all"
\* envelope around a good ledger refused
C22_Witness ==
  /\ normPc = "ledgerDone"
  /\ \/ /\ TaggedAll(rawInput)
        /\ rawInput.payload.ledgers.t = "array"
        /\ Len(rawInput.payload.ledgers.items) >= 1
        /\ normalizeLedger(rawInput.payload.ledgers.items[1]).ok
        /\ ~importedLedger.ok
     \/ /\ TaggedLedger(rawInput)
        /\ importedLedger.ok

\* every record of every ledger of the result is the record of that id of
\* the first list's ledger of that id when it holds one, and a record of the
\* second list's ledger of that id otherwise
RecordsTakenFrom(result, first, second) ==
  \A i \in 1..Len(result) :
    \A k \in 1..Len(result[i].records) :
      LET r == result[i].records[k]
          held == {x \in RecordsOf(first, result[i].id) : x.id = r.id}
      IN IF held # {} THEN r \in held
         ELSE r \in RecordsOf(second, result[i].id)

\* C23: a merge alters no record: every record that mergeLedgers(existing,
\* incoming) or dedupeLedgersById(existing followed by incoming) returns is,
\* field for field, a record of the existing or of the incoming ledger of
\* that id, and the existing one when both ledgers hold a record of that id.
C23_RecordsUnaltered ==
  /\ (mergePc = "merged" /\ UniqueIds(existing))
       => RecordsTakenFrom(merged, existing, incoming)
  /\ (mergePc = "collapsed" /\ UniqueIds(existing))
       => RecordsTakenFrom(collapsed, existing, incoming)

\* an existing and an incoming ledger of one id hold a record of one id with
\* different fields, and the incoming one holds a record more; the lists
\* have been merged
C23_Witness ==
  /\ mergePc \in {"merged", "collapsed"}
  /\ \E i \in 1..Len(existing), j \in 1..Len(incoming) :
       /\ existing[i].id = incoming[j].id
       /\ \E a \in RangeOf(existing[i].records), b \in RangeOf(incoming[j].records) :
            a.id = b.id /\ a # b
       /\ IdsOf(incoming[j].records) \ IdsOf(existing[i].records) # {}

\* C24: while activeLedgerId is 'master' or empty, addRecord and
\* removeRecord leave every ledger of the list as it is.
C24_MasterViewReadOnly ==
  [][((AddRecord \/ RemoveRecord) /\ activeLedgerId \in {"master", ""})
       => ledgers' = ledgers]_vars

\* a record has been submitted while ledgers were held and the master view
\* was active: no ledger holds it
C24_Witness ==
  /\ activeLedgerId = "master"
  /\ ledgers # <<>>
  /\ recordIdsMade = 1
  /\ generateRecordId(1) \notin ShownRecordIds
  /\ opsDone = 3
  /\ ledgerIdsMade = 1
  /\ inflight = <<>>
  /\ transferToast = NoToast

\* C25: once the effects of a step have run, activeLedgerId is the id of a
\* ledger of the list, or 'master' while the master ledger is shown, or the
\* empty string; it never names a ledger that is no longer in the list.
C25_ActiveLedgerValid ==
  \/ activeLedgerId \in IdsOf(ledgers)
  \/ activeLedgerId = "master" /\ showMasterLedger
  \/ activeLedgerId = ""

\* the active ledger has been deleted, or replaced away by an import, and
\* another ledger of the list is active
C25_Witness ==
  /\ ledgerIdsMade >= 1
  /\ generateLedgerId(1) \notin IdsOf(ledgers)
  /\ activeLedgerId \in IdsOf(ledgers)

\* C26: whenever the list of ledgers is not empty, activeLedgerId is not
\* empty.
C26_ActiveWhileLedgers == ledgers # <<>> => activeLedgerId # ""

C28_AsNewNameUnique ==
  [][\A i \in 1..Len(inflight) :
       (/\ Finishes(i)
        /\ inflight[i].kind = "ledger"
        /\ inflight[i].mode = "asNew"
        /\ ~FileFails(inflight[i]))
       => LET file == normalizeLedgerImport(inflight[i].file.value).v
              new == ledgers'[Len(ledgers')]
          IN /\ Len(ledgers') = Len(ledgers) + 1
             /\ SubSeq(ledgers', 1, Len(ledgers)) = ledgers
             /\ new.id \notin IdsOf(ledgers)
             /\ activeLedgerId' = new.id
             /\ new.records = file.records
             /\ new.createdAt = file.createdAt
             /\ \A k \in 1..Len(ledgers) :
                  Trim(new.name) # Trim(ledgers[k].name)]_vars

\* C29: every record of every ledger has its numeric fields finite, so the
\* export of the state is accepted by normalizeAllImport.
C29_FormRecordsFinite ==
  /\ \A k \in 1..Len(ledgers) :
       \A j \in 1..Len(ledgers[k].records) :
         \A f \in NumFields : IsFinite(ledgers[k].records[j][f])
  /\ OwnExport.ok

\* C30: a confirmed ledger-replace import gives the target ledger the
\* normalized records of the file and changes nothing else: the target keeps
\* its id, name and createdAt, every other ledger and the order of the list
\* are as before, and so is activeLedgerId.
C30_ReplaceTouchesRecordsOnly ==
  [][\A i \in 1..Len(inflight) :
       (/\ Finishes(i)
        /\ inflight[i].kind = "ledger"
        /\ inflight[i].mode = "replace"
        /\ ~FileFails(inflight[i])
        /\ confirmAnswer' = "ok")
       => LET file == normalizeLedgerImport(inflight[i].file.value).v
          IN /\ Len(ledgers') = Len(ledgers)
             /\ \A k \in 1..Len(ledgers) :
                  IF ledgers[k].id = inflight[i].targetLedgerId
                  THEN /\ ledgers'[k].records = file.records
                       /\ ledgers'[k].id = ledgers[k].id
                       /\ ledgers'[k].name = ledgers[k].name
                       /\ ledgers'[k].createdAt = ledgers[k].createdAt
                  ELSE ledgers'[k] = ledgers[k]
             /\ activeLedgerId' = activeLedgerId]_vars

\* of two ledgers made in the application one has just been given the
\* records of a file, the other has none
C30_Witness ==
  /\ confirmAnswer = "ok"
  /\ Len(ledgers) = 2
  /\ \E k \in 1..2 :
       /\ ledgers[k].id \in {generateLedgerId(1), generateLedgerId(2)}
       /\ ledgers[k].records # <<>>
       /\ ledgers[3 - k].id \in {generateLedgerId(1), generateLedgerId(2)}
       /\ ledgers[3 - k].records = <<>>

====
